---- MODULE Spec2Model ----
(***************************************************************************)
(* A model of the formula tree engine of metric-matrix:                    *)
(* src/src/app/services/formula-tree.service.ts (FormulaTreeService) and   *)
(* src/src/app/models/formula-node.model.ts (FormulaNode, NodeRegistry).   *)
(*                                                                         *)
(* Numbers.  A JavaScript number is modelled as a record                   *)
(*   [k |-> "fin", n, d]   the rational n/d in lowest terms, d > 0,        *)
(*   [k |-> "inf", n = 1 or -1]   Infinity and -Infinity,                  *)
(*   [k |-> "nan"]                NaN,                                     *)
(*   [k |-> "undef"]              undefined (an absent optional field),    *)
(*   [k |-> "null"]               null (what JSON.parse gives back for a   *)
(*                                non-finite number).                      *)
(* Rounding of IEEE doubles and the sign of zero are not modelled.         *)
(*                                                                         *)
(* Text.  A formula string is a sequence of tokens (identifiers, integer   *)
(* literals and the characters + - * / ( )); white space between tokens is *)
(* not represented: the evaluator removes it (safeEvaluate) and the        *)
(* solver's patterns skip it.                                              *)
(***************************************************************************)
EXTENDS Integers, Sequences, FiniteSets, TLC

\* ------------------------------------------------------------------ bounds

\* Node ids handed out by generateId are 1..MaxNodes, in order of creation.
MaxNodes == 3
\* An action is taken only when every number it leaves in the registry has
\* numerator and denominator of at most this magnitude.
MaxAbs == 4
\* The number of calls made on the service in one run.
MaxSteps == 5

\* ----------------------------------------------------------------- numbers

Abs(x) == IF x < 0 THEN -x ELSE x

Sign(x) == IF x < 0 THEN -1 ELSE IF x > 0 THEN 1 ELSE 0

RECURSIVE Gcd(_, _)
Gcd(x, y) == IF y = 0 THEN x ELSE Gcd(y, x % y)

Undef == [k |-> "undef", n |-> 0, d |-> 1]

Null == [k |-> "null", n |-> 0, d |-> 1]

NaN == [k |-> "nan", n |-> 0, d |-> 1]

Inf(s) == [k |-> "inf", n |-> s, d |-> 1]

\* The rational n/d (d # 0) in lowest terms.
Rat(n, d) ==
    LET g == Gcd(Abs(n), Abs(d))
        s == IF d < 0 THEN -1 ELSE 1
    IN  [k |-> "fin", n |-> s * (n \div g), d |-> s * (d \div g)]

Num(n) == [k |-> "fin", n |-> n, d |-> 1]

IsFin(x) == x.k = "fin"

IsZero(x) == x.k = "fin" /\ x.n = 0

\* IEEE-754 arithmetic on the modelled numbers (JavaScript's + - * /).
Neg(x) ==
    IF x.k = "nan" THEN NaN
    ELSE IF x.k = "inf" THEN Inf(-x.n)
    ELSE [k |-> "fin", n |-> -x.n, d |-> x.d]

Add(x, y) ==
    IF x.k = "nan" \/ y.k = "nan" THEN NaN
    ELSE IF x.k = "inf" /\ y.k = "inf" THEN (IF x.n = y.n THEN x ELSE NaN)
    ELSE IF x.k = "inf" THEN x
    ELSE IF y.k = "inf" THEN y
    ELSE Rat(x.n * y.d + y.n * x.d, x.d * y.d)

Sub(x, y) == Add(x, Neg(y))

Mul(x, y) ==
    IF x.k = "nan" \/ y.k = "nan" THEN NaN
    ELSE IF x.k = "inf" \/ y.k = "inf"
         THEN (IF IsZero(x) \/ IsZero(y) THEN NaN ELSE Inf(Sign(x.n) * Sign(y.n)))
    ELSE Rat(x.n * y.n, x.d * y.d)

Div(x, y) ==
    IF x.k = "nan" \/ y.k = "nan" THEN NaN
    ELSE IF x.k = "inf" /\ y.k = "inf" THEN NaN
    ELSE IF x.k = "inf" THEN Inf(IF y.n < 0 THEN -x.n ELSE x.n)
    ELSE IF y.k = "inf" THEN Num(0)
    ELSE IF y.n = 0 THEN (IF x.n = 0 THEN NaN ELSE Inf(Sign(x.n)))
    ELSE Rat(x.n * y.d, x.d * y.n)

\* `x ?? 0`: the nullish-coalescing default used for computedValue and value.
OrZero(x) == IF x.k \in {"undef", "null"} THEN Num(0) ELSE x

\* -------------------------------------------------------------- expressions

\* The characters, other than digits and '.', that safeEvaluate lets through.
OpChars == {"+", "-", "*", "/", "(", ")"}

\* The integer literals that occur in the modelled formulas.
Literals == {"0", "1", "2"}

LitVal(s) == IF s = "0" THEN 0 ELSE IF s = "1" THEN 1 ELSE 2

\* One lexical element of an expression string: an operator character, a
\* numeric literal or a run of letters.
OpTok(s) == [k |-> "op", s |-> s, v |-> Undef]

NumTok(v) == [k |-> "num", s |-> "", v |-> v]

IdTok(s) == [k |-> "id", s |-> s, v |-> Undef]

\* A token of a formula as written.
SrcTok(s) ==
    IF s \in OpChars THEN OpTok(s)
    ELSE IF s \in Literals THEN NumTok(Num(LitVal(s)))
    ELSE IdTok(s)

\* Number.prototype.toString(): the text spliced into the expression for a
\* context value.  A negative number is a '-' followed by its magnitude;
\* Infinity and NaN are spelled with letters.  (Within MaxAbs no number is
\* written in exponent notation.)
NumberToString(v) ==
    IF v.k = "nan" THEN <<IdTok("NaN")>>
    ELSE IF v.k = "inf"
         THEN (IF v.n < 0 THEN <<OpTok("-"), IdTok("Infinity")>> ELSE <<IdTok("Infinity")>>)
    ELSE IF v.n < 0 THEN <<OpTok("-"), NumTok(Neg(v))>>
    ELSE <<NumTok(v)>>

\* The replace loop of evaluateFormula: every identifier that is a key of the
\* context is replaced by its value's text.
SubstituteOne(s, context) ==
    IF SrcTok(s).k = "id" /\ s \in DOMAIN context
    THEN NumberToString(context[s])
    ELSE <<SrcTok(s)>>

RECURSIVE Substitute(_, _)
Substitute(formula, context) ==
    IF formula = <<>> THEN <<>>
    ELSE SubstituteOne(Head(formula), context) \o Substitute(Tail(formula), context)

\* /^[0-9+\-*/().]+$/ on the cleaned expression.
AllowedChars(toks) ==
    /\ toks # <<>>
    /\ \A i \in 1..Len(toks) : toks[i].k # "id"

\* JavaScript reads two adjacent '-' (or '+') characters as the single token
\* '--' ('++'), which no operand of these expressions can take: a SyntaxError.
HasUpdateToken(toks) ==
    \E i \in 1..(Len(toks) - 1) :
        /\ toks[i].k = "op" /\ toks[i + 1].k = "op"
        /\ toks[i].s = toks[i + 1].s
        /\ toks[i].s \in {"+", "-"}

\* The arithmetic grammar of JavaScript over these tokens, by recursive
\* descent.  Each parser returns [ok, v, i]: whether it parsed, the value and
\* the position after what it read; a parser that fails stands for the
\* SyntaxError that `new Function` throws, e naming what was thrown.
ParseFail == [ok |-> FALSE, v |-> NaN, i |-> 0, e |-> "SyntaxError"]

RECURSIVE ParseExpr(_, _), ParseExprRest(_, _, _), ParseTerm(_, _)
RECURSIVE ParseTermRest(_, _, _), ParseUnary(_, _), ParsePrimary(_, _)

IsOp(toks, i, ops) == i <= Len(toks) /\ toks[i].k = "op" /\ toks[i].s \in ops

\* F of the value of x: x is computed once, whatever use F makes of it.
Then(x, F(_)) == CHOOSE y \in {F(v) : v \in {x}} : TRUE

\* What a parser returns once it has read a value up to position i.
Parsed(v, i) == [ok |-> TRUE, v |-> v, i |-> i]

\* The closing parenthesis after the expression r.
CloseParen(toks, r) ==
    IF r.ok /\ IsOp(toks, r.i, {")"}) THEN Parsed(r.v, r.i + 1) ELSE ParseFail

ParsePrimary(toks, i) ==
    IF i > Len(toks) THEN ParseFail
    ELSE IF toks[i].k = "num" THEN Parsed(toks[i].v, i + 1)
    ELSE IF IsOp(toks, i, {"("})
         THEN Then(ParseExpr(toks, i + 1), LAMBDA r : CloseParen(toks, r))
    ELSE ParseFail

\* The sign op applied to the operand r.
Signed(op, r) ==
    IF ~r.ok THEN ParseFail ELSE Parsed(IF op = "-" THEN Neg(r.v) ELSE r.v, r.i)

ParseUnary(toks, i) ==
    IF IsOp(toks, i, {"+", "-"})
    THEN Then(ParseUnary(toks, i + 1), LAMBDA r : Signed(toks[i].s, r))
    ELSE ParsePrimary(toks, i)

\* acc op r.v for a binary operator character.
Apply(op, x, y) ==
    IF op = "+" THEN Add(x, y)
    ELSE IF op = "-" THEN Sub(x, y)
    ELSE IF op = "*" THEN Mul(x, y)
    ELSE Div(x, y)

\* Left-associative chains: after the right operand r of op, go on.
TermStep(toks, op, acc, r) ==
    IF ~r.ok THEN ParseFail ELSE ParseTermRest(toks, r.i, Apply(op, acc, r.v))

ParseTermRest(toks, i, acc) ==
    IF IsOp(toks, i, {"*", "/"})
    THEN Then(ParseUnary(toks, i + 1), LAMBDA r : TermStep(toks, toks[i].s, acc, r))
    ELSE Parsed(acc, i)

TermStart(toks, r) == IF ~r.ok THEN ParseFail ELSE ParseTermRest(toks, r.i, r.v)

ParseTerm(toks, i) == Then(ParseUnary(toks, i), LAMBDA r : TermStart(toks, r))

ExprStep(toks, op, acc, r) ==
    IF ~r.ok THEN ParseFail ELSE ParseExprRest(toks, r.i, Apply(op, acc, r.v))

ParseExprRest(toks, i, acc) ==
    IF IsOp(toks, i, {"+", "-"})
    THEN Then(ParseTerm(toks, i + 1), LAMBDA r : ExprStep(toks, toks[i].s, acc, r))
    ELSE Parsed(acc, i)

ExprStart(toks, r) == IF ~r.ok THEN ParseFail ELSE ParseExprRest(toks, r.i, r.v)

ParseExpr(toks, i) == Then(ParseTerm(toks, i), LAMBDA r : ExprStart(toks, r))

\* The whole of toks must have been read.
Whole(toks, r) == IF r.ok /\ r.i = Len(toks) + 1 THEN r ELSE ParseFail

\* The value of `return <toks>` for a whole token string, or a failure.
Arithmetic(toks) == Then(ParseExpr(toks, 1), LAMBDA r : Whole(toks, r))

\* An EvaluationResult.
Success(v) == [success |-> TRUE, value |-> v, error |-> ""]

Failure(e) == [success |-> FALSE, value |-> Undef, error |-> e]

\* `throw new Error('Invalid characters in expression')`
InvalidCharacters == [ParseFail EXCEPT !.e = "Error: Invalid characters in expression"]

\* safeEvaluate without the whitelist test.
safeEvaluateUnchecked(toks) ==
    IF HasUpdateToken(toks) THEN ParseFail
    ELSE Arithmetic(toks)

\* safeEvaluate: [ok |-> FALSE] stands for a thrown Error or SyntaxError.
safeEvaluate(toks) ==
    IF ~AllowedChars(toks) THEN InvalidCharacters
    ELSE IF HasUpdateToken(toks) THEN ParseFail
    ELSE Arithmetic(toks)

\* The end of evaluateFormula: the catch, and the test for a number.
Checked(result) ==
    IF ~result.ok
    THEN (IF result.e = "SyntaxError"
          THEN Failure("Formula evaluation error: SyntaxError")
          ELSE Failure("Formula evaluation error: Error: Invalid characters in expression"))
    ELSE IF result.v.k # "nan" THEN Success(result.v)
    ELSE Failure("Formula evaluation resulted in non-numeric value")

evaluateFormula(formula, context) ==
    Then(Substitute(formula, context),
         LAMBDA expression : Then(safeEvaluate(expression), LAMBDA result : Checked(result)))

\* ------------------------------------------------------------------- state

VARIABLES
    nodes,        \* registry.nodes: a function from the ids in the Map to FormulaNode records
    rootNodeIds,  \* registry.rootNodeIds: a sequence of ids
    nextId,       \* the number of ids generateId has handed out so far, plus one
    last,         \* the last call made on the service and what it returned
    steps,        \* the number of calls made on the service so far
    stack         \* the activations of evaluateNode of the call in progress

vars == <<nodes, rootNodeIds, nextId, last, steps, stack>>

\* An id that generateId never returns: stands for any id absent from the Map.
NoId == 0

Ids == 1..MaxNodes

\* The names given to the nodes, one per id: names are unique across the graph.
Names == <<"a", "b", "c", "d", "e">>

\* parent.childrenIds.includes / indexOf / splice / push on id lists.
Includes(seq, x) == \E i \in 1..Len(seq) : seq[i] = x

IndexOf(seq, x) ==
    IF Includes(seq, x) THEN CHOOSE i \in 1..Len(seq) : seq[i] = x /\ \A j \in 1..(i - 1) : seq[j] # x
    ELSE 0

Splice(seq, i) == SubSeq(seq, 1, i - 1) \o SubSeq(seq, i + 1, Len(seq))

Elems(seq) == {seq[i] : i \in 1..Len(seq)}

\* Map.set(id, node).
MapSet(ns, id, node) == [i \in DOMAIN ns \cup {id} |-> IF i = id THEN node ELSE ns[i]]

\* Map.delete(id).
MapDelete(ns, id) == [i \in DOMAIN ns \ {id} |-> ns[i]]

\* context[name] = v on an EvaluationContext.
CtxSet(context, name, v) ==
    [x \in DOMAIN context \cup {name} |-> IF x = name THEN v ELSE context[x]]

EmptyCtx == [x \in {} |-> Undef]

\* A FormulaNode (description and unit, which the service never reads, left out).
FormulaNode(id, name, type, formula, value, childrenIds, computedValue) ==
    [id |-> id, name |-> name, type |-> type, formula |-> formula, value |-> value,
     childrenIds |-> childrenIds, computedValue |-> computedValue, parentIds |-> <<>>]

\* ------------------------------------------------------------- evaluation

RECURSIVE evaluateNode(_, _, _), EvalChildren(_, _, _, _)

\* What evaluateNode returns: the registry afterwards and the result.
Evaluated(ns, res) == [ns |-> ns, res |-> res]

\* `context[child.name] = child.computedValue ?? 0`, read after the child's
\* evaluation, and on to the next child.
ReadChild(after, childIds, visitedNodes, context) ==
    EvalChildren(after, Tail(childIds), visitedNodes,
                 CtxSet(context, after[Head(childIds)].name,
                        OrZero(after[Head(childIds)].computedValue)))

\* The loop as it would be if a child's computedValue were read before the
\* child is evaluated.
EvalChildrenEarlyRead(ns, childIds, visitedNodes, context) ==
    IF childIds = <<>> THEN [ns |-> ns, context |-> context]
    ELSE IF Head(childIds) \notin DOMAIN ns
         THEN EvalChildren(ns, Tail(childIds), visitedNodes, context)
    ELSE EvalChildren(evaluateNode(ns, Head(childIds), visitedNodes).ns,
                      Tail(childIds), visitedNodes,
                      CtxSet(context, ns[Head(childIds)].name,
                             OrZero(ns[Head(childIds)].computedValue)))

\* The loop of evaluateNode over node.childrenIds: each child that exists is
\* evaluated with a copy of the visited set (the result of that call is
\* dropped), then its computedValue is read into the context under its name.
\* Returns the registry after the loop and the context built.
EvalChildren(ns, childIds, visitedNodes, context) ==
    IF childIds = <<>> THEN [ns |-> ns, context |-> context]
    ELSE IF Head(childIds) \notin DOMAIN ns
         THEN EvalChildren(ns, Tail(childIds), visitedNodes, context)
    ELSE ReadChild(evaluateNode(ns, Head(childIds), visitedNodes).ns,
                   childIds, visitedNodes, context)

\* The end of evaluateNode as it would be if a failure cleared the value.
StoreResultOrClear(ns, nodeId, result) ==
    Evaluated([ns EXCEPT ![nodeId].computedValue = result.value], result)

\* The end of evaluateNode: computedValue is set only on success.
StoreResult(ns, nodeId, result) ==
    Evaluated(IF result.success THEN [ns EXCEPT ![nodeId].computedValue = result.value] ELSE ns,
              result)

EvalFormulaNode(nodeId, formula, loop) ==
    StoreResult(loop.ns, nodeId, evaluateFormula(formula, loop.context))

\* evaluateNode with a factor's branch that returns the value without
\* storing it.
evaluateNodeUnstored(ns, nodeId, visitedNodes) ==
    IF nodeId \notin DOMAIN ns THEN Evaluated(ns, Failure("Node not found"))
    ELSE IF nodeId \in visitedNodes
         THEN Evaluated(ns, Failure("Circular dependency detected"))
    ELSE IF ns[nodeId].type = "factor"
         THEN Evaluated(ns, Success(OrZero(ns[nodeId].value)))
    ELSE IF ns[nodeId].formula = <<>>
         THEN Evaluated(ns, Failure("No formula defined"))
    ELSE EvalFormulaNode(nodeId, ns[nodeId].formula,
                         EvalChildren(ns, ns[nodeId].childrenIds,
                                      visitedNodes \cup {nodeId}, EmptyCtx))

\* evaluateNode(nodeId, visitedNodes).
evaluateNode(ns, nodeId, visitedNodes) ==
    IF nodeId \notin DOMAIN ns THEN Evaluated(ns, Failure("Node not found"))
    ELSE IF nodeId \in visitedNodes
         THEN Evaluated(ns, Failure("Circular dependency detected"))
    ELSE IF ns[nodeId].type = "factor"
         THEN StoreResult(ns, nodeId, Success(OrZero(ns[nodeId].value)))
    ELSE IF ns[nodeId].formula = <<>>
         THEN Evaluated(ns, Failure("No formula defined"))
    ELSE EvalFormulaNode(nodeId, ns[nodeId].formula,
                         EvalChildren(ns, ns[nodeId].childrenIds,
                                      visitedNodes \cup {nodeId}, EmptyCtx))

\* evaluateAllRoots: every root in list order, each with a new empty set.
RECURSIVE EvalRoots(_, _)
EvalRoots(ns, roots) ==
    IF roots = <<>> THEN ns
    ELSE EvalRoots(evaluateNode(ns, Head(roots), {}).ns, Tail(roots))

evaluateAllRoots(ns, roots) == EvalRoots(ns, roots)

\* ------------------------------------------------------ registry operations

clearRegistry == [nodes |-> [i \in {} |-> Undef], rootNodeIds |-> <<>>]

createFactorNode(ns, id, name, value) ==
    MapSet(ns, id, FormulaNode(id, name, "factor", <<>>, value, <<>>, value))

\* The loop of createFormulaNode over childNodeIds: the new id is pushed on
\* the parentIds of every listed child that exists, once per listing.
RECURSIVE RegisterParent(_, _, _)
RegisterParent(ns, childNodeIds, id) ==
    IF childNodeIds = <<>> THEN ns
    ELSE LET childId == Head(childNodeIds)
             ns1 == IF childId \in DOMAIN ns
                    THEN [ns EXCEPT ![childId].parentIds = Append(@, id)]
                    ELSE ns
         IN  RegisterParent(ns1, Tail(childNodeIds), id)

createFormulaNode(ns, id, name, formula, childNodeIds) ==
    LET node == FormulaNode(id, name, "formula", formula, Undef, childNodeIds, Undef)
        registered == MapSet(RegisterParent(ns, childNodeIds, id), id, node)
    IN  evaluateNode(registered, id, {}).ns

\* addRootNode as it would be without the test for presence.
addRootNodeAlways(roots, nodeId) == Append(roots, nodeId)

addRootNode(roots, nodeId) ==
    IF ~Includes(roots, nodeId) THEN Append(roots, nodeId) ELSE roots

removeRootNode(roots, nodeId) ==
    IF IndexOf(roots, nodeId) # 0 THEN Splice(roots, IndexOf(roots, nodeId)) ELSE roots

\* addChild as it would be without the back-reference: the child is pushed on
\* parent.childrenIds and child.parentIds is left alone.
addChildOneWay(ns, parentId, childId) ==
    IF parentId \notin DOMAIN ns \/ childId \notin DOMAIN ns THEN ns
    ELSE IF Includes(ns[parentId].childrenIds, childId) THEN ns
    ELSE LET pushed == [ns EXCEPT ![parentId].childrenIds = Append(@, childId)]
         IN  IF pushed[parentId].type = "formula"
             THEN evaluateNode(pushed, parentId, {}).ns
             ELSE pushed

\* addChild as it would be if the evaluation of a formula parent were followed
\* by the evaluation of the parents of that parent.
addChildCascading(ns, parentId, childId) ==
    IF parentId \notin DOMAIN ns \/ childId \notin DOMAIN ns THEN ns
    ELSE IF Includes(ns[parentId].childrenIds, childId) THEN ns
    ELSE LET pushed == [ns EXCEPT ![parentId].childrenIds = Append(@, childId)]
             linked == IF ~Includes(pushed[childId].parentIds, parentId)
                       THEN [pushed EXCEPT ![childId].parentIds = Append(@, parentId)]
                       ELSE pushed
         IN  IF linked[parentId].type = "formula"
             THEN evaluateAllRoots(evaluateNode(linked, parentId, {}).ns,
                                   linked[parentId].parentIds)
             ELSE linked

\* addChild(parentId, childId): both links are pushed unless the child is
\* already listed, and a formula parent is evaluated.
addChild(ns, parentId, childId) ==
    IF parentId \notin DOMAIN ns \/ childId \notin DOMAIN ns THEN ns
    ELSE IF Includes(ns[parentId].childrenIds, childId) THEN ns
    ELSE LET pushed == [ns EXCEPT ![parentId].childrenIds = Append(@, childId)]
             linked == IF ~Includes(pushed[childId].parentIds, parentId)
                       THEN [pushed EXCEPT ![childId].parentIds = Append(@, parentId)]
                       ELSE pushed
         IN  IF linked[parentId].type = "formula"
             THEN evaluateNode(linked, parentId, {}).ns
             ELSE linked

\* removeChild as it would be if a formula parent were evaluated before the
\* child is looked up.
removeChildEvaluating(ns, parentId, childId) ==
    IF parentId \notin DOMAIN ns THEN Evaluated(ns, Failure("false"))
    ELSE IF childId \notin DOMAIN ns
    THEN Evaluated(IF ns[parentId].type = "formula"
                   THEN evaluateNode(ns, parentId, {}).ns
                   ELSE ns,
                   Failure("false"))
    ELSE LET index == IndexOf(ns[parentId].childrenIds, childId)
         IN  IF index = 0 THEN Evaluated(ns, Failure("false"))
             ELSE LET spliced == [ns EXCEPT ![parentId].childrenIds = Splice(@, index)]
                      parentIndex == IndexOf(spliced[childId].parentIds, parentId)
                      unlinked == IF parentIndex # 0
                                  THEN [spliced EXCEPT ![childId].parentIds = Splice(@, parentIndex)]
                                  ELSE spliced
                  IN  Evaluated(IF unlinked[parentId].type = "formula"
                                THEN evaluateNode(unlinked, parentId, {}).ns
                                ELSE unlinked,
                                Success(Undef))

\* removeChild returns a boolean: the registry afterwards, and in res the
\* boolean as a success or a failure.
removeChild(ns, parentId, childId) ==
    IF parentId \notin DOMAIN ns \/ childId \notin DOMAIN ns THEN Evaluated(ns, Failure("false"))
    ELSE LET index == IndexOf(ns[parentId].childrenIds, childId)
         IN  IF index = 0 THEN Evaluated(ns, Failure("false"))
             ELSE LET spliced == [ns EXCEPT ![parentId].childrenIds = Splice(@, index)]
                      parentIndex == IndexOf(spliced[childId].parentIds, parentId)
                      unlinked == IF parentIndex # 0
                                  THEN [spliced EXCEPT ![childId].parentIds = Splice(@, parentIndex)]
                                  ELSE spliced
                  IN  Evaluated(IF unlinked[parentId].type = "formula"
                                THEN evaluateNode(unlinked, parentId, {}).ns
                                ELSE unlinked,
                                Success(Undef))

\* A Partial<FormulaNode>: `has` is the set of fields the object carries.
Partial(has, value, formula, childrenIds) ==
    [has |-> has, value |-> value, formula |-> formula, childrenIds |-> childrenIds]

ValueUpdate(v) == Partial({"value"}, v, <<>>, <<>>)

FormulaUpdate(f) == Partial({"formula"}, Undef, f, <<>>)

ChildrenUpdate(c) == Partial({"childrenIds"}, Undef, <<>>, c)

\* Object.assign(node, updates).
Assign(node, updates) ==
    [node EXCEPT
        !.value = IF "value" \in updates.has THEN updates.value ELSE @,
        !.formula = IF "formula" \in updates.has THEN updates.formula ELSE @,
        !.childrenIds = IF "childrenIds" \in updates.has THEN updates.childrenIds ELSE @,
        !.id = IF "id" \in updates.has THEN updates.id ELSE @]

\* updateNode as it would be if the edit of a formula node were followed by
\* evaluateAllRoots.
updateNodeCascading(ns, roots, nodeId, updates) ==
    IF nodeId \notin DOMAIN ns THEN ns
    ELSE LET assigned == [ns EXCEPT ![nodeId] = Assign(@, updates)]
         IN  IF assigned[nodeId].type = "factor"
                /\ "value" \in updates.has /\ updates.value.k # "undef"
             THEN evaluateAllRoots([assigned EXCEPT ![nodeId].computedValue = updates.value],
                                   roots)
             ELSE IF assigned[nodeId].type = "formula"
                  THEN evaluateAllRoots(evaluateNode(assigned, nodeId, {}).ns, roots)
                  ELSE assigned

\* updateNode(nodeId, updates): the fields are assigned; a factor whose value
\* was given is followed by evaluateAllRoots, a formula node is evaluated.
updateNode(ns, roots, nodeId, updates) ==
    IF nodeId \notin DOMAIN ns THEN ns
    ELSE LET assigned == [ns EXCEPT ![nodeId] = Assign(@, updates)]
         IN  IF assigned[nodeId].type = "factor"
                /\ "value" \in updates.has /\ updates.value.k # "undef"
             THEN evaluateAllRoots([assigned EXCEPT ![nodeId].computedValue = updates.value],
                                   roots)
             ELSE IF assigned[nodeId].type = "formula"
                  THEN evaluateNode(assigned, nodeId, {}).ns
                  ELSE assigned

\* The first loop of deleteNode: `for (const parentId of node.parentIds)`
\* reads node.parentIds by index while removeChild splices that same array.
RECURSIVE RemoveFromParents(_, _, _)
RemoveFromParents(ns, nodeId, i) ==
    IF i > Len(ns[nodeId].parentIds) THEN ns
    ELSE RemoveFromParents(removeChild(ns, ns[nodeId].parentIds[i], nodeId).ns, nodeId, i + 1)

\* The second loop of deleteNode, over node.childrenIds.
RECURSIVE RemoveFromChildren(_, _, _)
RemoveFromChildren(ns, childIds, nodeId) ==
    IF childIds = <<>> THEN ns
    ELSE LET childId == Head(childIds)
             index == IF childId \in DOMAIN ns THEN IndexOf(ns[childId].parentIds, nodeId) ELSE 0
             ns1 == IF index # 0
                    THEN [ns EXCEPT ![childId].parentIds = Splice(@, index)]
                    ELSE ns
         IN  RemoveFromChildren(ns1, Tail(childIds), nodeId)

\* The rest of deleteNode once the node is out of its parents' lists.
Unregister(ns, roots, nodeId) ==
    [nodes |-> MapDelete(RemoveFromChildren(ns, ns[nodeId].childrenIds, nodeId), nodeId),
     rootNodeIds |-> removeRootNode(roots, nodeId)]

\* deleteNode on the whole registry [nodes, rootNodeIds].
deleteNode(reg, nodeId) ==
    IF nodeId \notin DOMAIN reg.nodes THEN reg
    ELSE Unregister(RemoveFromParents(reg.nodes, nodeId, 1), reg.rootNodeIds, nodeId)

\* ------------------------------------------------------------------ solving

\* 1 / tolerance of solveNumerically.
ToleranceInverse == 1000000

\* Math.abs(x) < tolerance * factor, false for NaN and the infinities.
Close(x, factor) == IsFin(x) /\ Abs(x.n) * ToleranceInverse < factor * x.d

\* buildContext(childValue) of computeChildValue: the child solved for is
\* bound to childValue, every other child that exists to computedValue ?? 0.
RECURSIVE buildContext(_, _, _, _, _)
buildContext(ns, childIds, childId, childValue, context) ==
    IF childIds = <<>> THEN context
    ELSE IF Head(childIds) \notin DOMAIN ns
         THEN buildContext(ns, Tail(childIds), childId, childValue, context)
    ELSE buildContext(ns, Tail(childIds), childId, childValue,
                      CtxSet(context, ns[Head(childIds)].name,
                             IF Head(childIds) = childId THEN childValue
                             ELSE OrZero(ns[Head(childIds)].computedValue)))

\* result.success ? result.value : NaN
ValueOrNaN(result) == IF result.success THEN result.value ELSE NaN

evaluateWithChildValue(ns, parent, childId, childValue) ==
    ValueOrNaN(evaluateFormula(parent.formula,
                               buildContext(ns, parent.childrenIds, childId, childValue,
                                            EmptyCtx)))

\* The context of trySolveAlgebraically: the children other than the one
\* solved for.
RECURSIVE OtherChildren(_, _, _, _)
OtherChildren(ns, childIds, childId, context) ==
    IF childIds = <<>> THEN context
    ELSE IF Head(childIds) \in DOMAIN ns /\ Head(childIds) # childId
         THEN OtherChildren(ns, Tail(childIds), childId,
                            CtxSet(context, ns[Head(childIds)].name,
                                   OrZero(ns[Head(childIds)].computedValue)))
    ELSE OtherChildren(ns, Tail(childIds), childId, context)

\* formula.match(/^childName\s*op\s*(.+)$/): the captured group, or <<>> for
\* no match (a captured group is never empty).
MatchStart(formula, childName, op) ==
    IF Len(formula) >= 3 /\ formula[1] = childName /\ formula[2] = op
    THEN SubSeq(formula, 3, Len(formula))
    ELSE <<>>

\* formula.match(/^(.+)\s*op\s*childName$/).
MatchEnd(formula, childName, op) ==
    IF Len(formula) >= 3 /\ formula[Len(formula)] = childName /\ formula[Len(formula) - 1] = op
    THEN SubSeq(formula, 1, Len(formula) - 2)
    ELSE <<>>

\* match = first || second
Either(first, second) == IF first # <<>> THEN first ELSE second

\* `if (match) { otherValue = evaluateFormula(match[1], context) ...`: a
\* failure stands for no match as well.
OtherValue(match, context) ==
    IF match = <<>> THEN Failure("no match") ELSE evaluateFormula(match, context)

\* The six patterns in the order tried; each returns the inverse, or passes
\* on to the next when it does not match or its guard fails.
SolveDivide2(otherValue, targetValue) ==
    IF otherValue.success /\ ~IsZero(targetValue)
    THEN Success(Div(otherValue.value, targetValue))
    ELSE Failure("Cannot solve algebraically, will use numerical method")

SolveDivide1(formula, childName, context, targetValue, otherValue) ==
    IF otherValue.success /\ ~IsZero(otherValue.value)
    THEN Success(Mul(targetValue, otherValue.value))
    ELSE SolveDivide2(OtherValue(MatchEnd(formula, childName, "/"), context), targetValue)

SolveSubtract2(formula, childName, context, targetValue, otherValue) ==
    IF otherValue.success
    THEN Success(Sub(otherValue.value, targetValue))
    ELSE SolveDivide1(formula, childName, context, targetValue,
                      OtherValue(MatchStart(formula, childName, "/"), context))

SolveSubtract1(formula, childName, context, targetValue, otherValue) ==
    IF otherValue.success
    THEN Success(Add(targetValue, otherValue.value))
    ELSE SolveSubtract2(formula, childName, context, targetValue,
                        OtherValue(MatchEnd(formula, childName, "-"), context))

SolveAdd(formula, childName, context, targetValue, otherValue) ==
    IF otherValue.success
    THEN Success(Sub(targetValue, otherValue.value))
    ELSE SolveSubtract1(formula, childName, context, targetValue,
                        OtherValue(MatchStart(formula, childName, "-"), context))

SolveMultiply(formula, childName, context, targetValue, otherValue) ==
    IF otherValue.success /\ ~IsZero(otherValue.value)
    THEN Success(Div(targetValue, otherValue.value))
    ELSE SolveAdd(formula, childName, context, targetValue,
                  OtherValue(Either(MatchStart(formula, childName, "+"),
                                    MatchEnd(formula, childName, "+")), context))

SolvePatterns(formula, childName, context, targetValue) ==
    SolveMultiply(formula, childName, context, targetValue,
                  OtherValue(Either(MatchStart(formula, childName, "*"),
                                    MatchEnd(formula, childName, "*")), context))

trySolveAlgebraically(ns, parent, child, targetValue) ==
    SolvePatterns(parent.formula, child.name,
                  OtherChildren(ns, parent.childrenIds, child.id, EmptyCtx), targetValue)

\* x1 of solveNumerically.
SecondGuess(initialGuess) ==
    IF IsZero(initialGuess) THEN Num(1) ELSE Mul(initialGuess, Rat(11, 10))

\* The values the secant iteration is taken to arrive at.
Guesses == {Num(n) : n \in 0..MaxAbs}

\* The exits of the loop of solveNumerically once it iterates: the three
\* failures, or a value within ten tolerances of the target.  The floating
\* point iteration itself, and its random perturbation, are not followed.
Iterated(ns, parent, childId, targetValue) ==
    { Failure("Numerical solution diverged"),
      Failure("Formula evaluation resulted in NaN"),
      Failure("Could not converge to a solution within tolerance") }
    \cup { Success(x) : x \in {g \in Guesses :
                 Close(Sub(evaluateWithChildValue(ns, parent, childId, g), targetValue), 10)} }

\* The first pass of the loop: a residue that is not finite makes xNext NaN
\* and returns the divergence failure; a residue within tolerance returns x1.
FirstPass(ns, parent, childId, targetValue, x1, f1) ==
    IF ~IsFin(f1) THEN {Failure("Numerical solution diverged")}
    ELSE IF Close(f1, 1) THEN {Success(x1)}
    ELSE Iterated(ns, parent, childId, targetValue)

\* The results solveNumerically can return.
solveNumerically(ns, parent, childId, targetValue, initialGuess) ==
    FirstPass(ns, parent, childId, targetValue, SecondGuess(initialGuess),
              Sub(evaluateWithChildValue(ns, parent, childId, SecondGuess(initialGuess)),
                  targetValue))

\* What computeChildValue returns, with the stage that produced it.
Outcome(stage, res) == [stage |-> stage, res |-> res]

\* The end of computeChildValue: the algebraic solution if there is one, else
\* the numerical one started at the child's current value.
Stages(ns, parent, child, targetValue, algebraicSolution) ==
    IF algebraicSolution.success THEN {Outcome("algebraic", algebraicSolution)}
    ELSE {Outcome("numerical", r) :
            r \in solveNumerically(ns, parent, child.id, targetValue,
                                   OrZero(IF child.type = "factor" THEN child.value
                                          ELSE child.computedValue))}

\* computeChildValue with the parent's type checked before the child's
\* existence.
computeChildValueTypeFirst(ns, parentId, childId, targetValue) ==
    IF parentId \notin DOMAIN ns THEN {Outcome("", Failure("Parent node not found"))}
    ELSE IF ns[parentId].type # "formula"
         THEN {Outcome("", Failure("Parent must be a formula node"))}
    ELSE IF childId \notin DOMAIN ns THEN {Outcome("", Failure("Child node not found"))}
    ELSE IF ~Includes(ns[parentId].childrenIds, childId)
         THEN {Outcome("", Failure("Child is not part of parent formula"))}
    ELSE IF ns[parentId].formula = <<>> THEN {Outcome("", Failure("Parent has no formula"))}
    ELSE Stages(ns, ns[parentId], ns[childId], targetValue,
                trySolveAlgebraically(ns, ns[parentId], ns[childId], targetValue))

\* The results computeChildValue can return.
computeChildValue(ns, parentId, childId, targetValue) ==
    IF parentId \notin DOMAIN ns THEN {Outcome("", Failure("Parent node not found"))}
    ELSE IF childId \notin DOMAIN ns THEN {Outcome("", Failure("Child node not found"))}
    ELSE IF ns[parentId].type # "formula"
         THEN {Outcome("", Failure("Parent must be a formula node"))}
    ELSE IF ~Includes(ns[parentId].childrenIds, childId)
         THEN {Outcome("", Failure("Child is not part of parent formula"))}
    ELSE IF ns[parentId].formula = <<>> THEN {Outcome("", Failure("Parent has no formula"))}
    ELSE Stages(ns, ns[parentId], ns[childId], targetValue,
                trySolveAlgebraically(ns, ns[parentId], ns[childId], targetValue))

\* -------------------------------------------------------------- persistence

\* The ids of a set in increasing order: the iteration order of the Map, whose
\* keys are inserted in the order generateId made them.
RECURSIVE SortedIds(_)
SortedIds(S) ==
    IF S = {} THEN <<>>
    ELSE LET m == CHOOSE x \in S : \A y \in S : x <= y
         IN  <<m>> \o SortedIds(S \ {m})

\* What JSON.stringify followed by JSON.parse makes of a number field:
\* Infinity and NaN are written as null; an undefined field is left out and
\* reads back as undefined.
JsonNumber(v) == IF v.k \in {"inf", "nan"} THEN Null ELSE v

JsonNode(node) ==
    [node EXCEPT !.value = JsonNumber(@), !.computedValue = JsonNumber(@)]

\* One element of the document's "nodes" array: an [id, node] pair, or, with
\* pair = FALSE, a value that cannot be destructured (a number, null, {}).
Entry(id, node) == [pair |-> TRUE, id |-> id, node |-> node]

\* The text handed to importFromJson, as far as the function looks at it:
\* whether JSON.parse accepts it, whether "nodes" and "rootNodeIds" are
\* arrays, and their elements.
Document(parses, hasNodes, hasRoots, entries, roots) ==
    [parses |-> parses, hasNodes |-> hasNodes, hasRoots |-> hasRoots,
     nodes |-> entries, rootNodeIds |-> roots]

exportToJson(reg) ==
    LET ids == SortedIds(DOMAIN reg.nodes)
    IN  Document(TRUE, TRUE, TRUE,
                 [i \in 1..Len(ids) |-> Entry(ids[i], JsonNode(reg.nodes[ids[i]]))],
                 reg.rootNodeIds)

\* The loop `for (const [id, node] of importData.nodes)`: stops with
\* ok = FALSE at the first element that is not a pair (the TypeError).
RECURSIVE ImportNodes(_, _)
ImportNodes(ns, entries) ==
    IF entries = <<>> THEN [ns |-> ns, ok |-> TRUE]
    ELSE IF ~Head(entries).pair THEN [ns |-> ns, ok |-> FALSE]
    ELSE ImportNodes(MapSet(ns, Head(entries).id, Head(entries).node), Tail(entries))

\* importFromJson: the registry afterwards and the result returned.
importFromJson(reg, doc) ==
    IF ~doc.parses THEN [reg |-> reg, res |-> Failure("Import failed")]
    ELSE IF ~doc.hasNodes
         THEN [reg |-> reg, res |-> Failure("Invalid format: missing nodes array")]
    ELSE IF ~doc.hasRoots
         THEN [reg |-> reg, res |-> Failure("Invalid format: missing rootNodeIds array")]
    ELSE LET loaded == ImportNodes(clearRegistry.nodes, doc.nodes)
         IN  IF ~loaded.ok
             THEN [reg |-> [nodes |-> loaded.ns, rootNodeIds |-> clearRegistry.rootNodeIds],
                   res |-> Failure("Import failed")]
             ELSE [reg |-> [nodes |-> evaluateAllRoots(loaded.ns, doc.rootNodeIds),
                            rootNodeIds |-> doc.rootNodeIds],
                   res |-> Success(Undef)]

\* ------------------------------------------------------------------ inputs

\* The values given to factors.
FactorValues == {Num(-1), Num(2)}

\* The formulas given to formula nodes: the empty formula, sums, a product
\* and a difference over the names of the nodes.
Formulas ==
    { <<>>,
      <<"a", "+", "1">>,
      <<"b", "+", "1">>,
      <<"a", "*", "b">>,
      <<"1", "-", "a">> }

\* The formulas of the graphs that are edited: a sum, a product and a
\* difference.
UpdateFormulas ==
    { <<"a", "+", "1">>,
      <<"a", "*", "b">>,
      <<"1", "-", "a">> }

\* The values and formulas of the graphs that are exported and imported: a
\* quotient whose divisor can be zero, so that Infinity is stored.
PersistValues == {Num(0), Num(2)}

PersistFormulas == { <<"a", "+", "1">>, <<"2", "/", "a">> }

\* The graphs that are evaluated step by step: one factor value and two
\* sums, which addChild can link into cycles and self-loops.
EvalValues == {Num(2)}

EvalFormulas == { <<"a", "+", "1">>, <<"b", "+", "1">> }

\* The graphs that are solved: a product, a sum, a difference, a quotient,
\* and two formulas of two operators.
SolveValues == {Num(1), Num(2)}

SolveFormulas ==
    { <<"a", "*", "b">>,
      <<"a", "+", "b">>,
      <<"b", "-", "a">>,
      <<"b", "/", "a">>,
      <<"a", "*", "b", "+", "1">>,
      <<"a", "-", "b", "-", "1">> }

Targets == {Num(0), Num(4)}

\* The longest child list passed to createFormulaNode or updateNode.
MaxChildren == 2

\* The lists of distinct ids of S of length at most MaxChildren.
ChildLists(S) ==
    {<<>>} \cup {<<x>> : x \in S}
           \cup (IF MaxChildren < 2 THEN {} ELSE {c \in S \X S : c[1] # c[2]})
           \cup (IF MaxChildren < 3 THEN {}
                 ELSE {c \in S \X S \X S : c[1] # c[2] /\ c[1] # c[3] /\ c[2] # c[3]})

\* Every number stored in the registry is within the bound MaxAbs.
SmallNumber(v) == v.k = "fin" => (Abs(v.n) <= MaxAbs /\ v.d <= MaxAbs)

Small(ns) == \A id \in DOMAIN ns : SmallNumber(ns[id].value) /\ SmallNumber(ns[id].computedValue)

\* ----------------------------------------------------------------- actions

Registry == [nodes |-> nodes, rootNodeIds |-> rootNodeIds]

\* What `last` records: the operation, its id arguments, which field an
\* update carried, and the value returned (Success(Undef) for void).
Last(op, a, b, what, res) ==
    [op |-> op, a |-> a, b |-> b, what |-> what, res |-> res, target |-> Undef]

\* One more call is made: the service is single-threaded, so no evaluation
\* is in progress when it starts.
Call == steps < MaxSteps /\ steps' = steps + 1 /\ stack = <<>>

Init ==
    /\ steps = 0
    /\ nodes = clearRegistry.nodes
    /\ rootNodeIds = clearRegistry.rootNodeIds
    /\ nextId = 1
    /\ stack = <<>>
    /\ last = Last("init", NoId, NoId, "", Success(Undef))

CreateFactor(values) ==
    /\ Call
    /\ nextId <= MaxNodes
    /\ \E value \in values :
          nodes' = createFactorNode(nodes, nextId, Names[nextId], value)
    /\ nextId' = nextId + 1
    /\ last' = Last("createFactorNode", nextId, NoId, "", Success(Undef))
    /\ UNCHANGED <<rootNodeIds, stack>>

CreateFormula(formulas) ==
    /\ Call
    /\ nextId <= MaxNodes
    /\ \E formula \in formulas, childNodeIds \in ChildLists(DOMAIN nodes) :
          nodes' = createFormulaNode(nodes, nextId, Names[nextId], formula, childNodeIds)
    /\ Small(nodes')
    /\ nextId' = nextId + 1
    /\ last' = Last("createFormulaNode", nextId, NoId, "", Success(Undef))
    /\ UNCHANGED <<rootNodeIds, stack>>

AddRoot ==
    /\ Call
    /\ \E nodeId \in DOMAIN nodes :
          /\ rootNodeIds' = addRootNode(rootNodeIds, nodeId)
          /\ last' = Last("addRootNode", nodeId, NoId, "", Success(Undef))
    /\ UNCHANGED <<nodes, nextId, stack>>

RemoveRoot ==
    /\ Call
    /\ \E nodeId \in DOMAIN nodes :
          /\ rootNodeIds' = removeRootNode(rootNodeIds, nodeId)
          /\ last' = Last("removeRootNode", nodeId, NoId, "", Success(Undef))
    /\ UNCHANGED <<nodes, nextId, stack>>

\* The registry and the result that a call returned are taken over.
Returned(r, op, a, b) ==
    /\ nodes' = r.ns
    /\ last' = Last(op, a, b, "", r.res)

\* evaluateTree(nodeId), that is evaluateNode(nodeId, new Set()).
Evaluate ==
    /\ Call
    /\ \E nodeId \in DOMAIN nodes \cup {NoId} :
          Returned(evaluateNode(nodes, nodeId, {}), "evaluateNode", nodeId, NoId)
    /\ Small(nodes')
    /\ UNCHANGED <<rootNodeIds, nextId, stack>>

AddChild ==
    /\ Call
    /\ \E parentId \in DOMAIN nodes \cup {NoId}, childId \in DOMAIN nodes \cup {NoId} :
          /\ nodes' = addChild(nodes, parentId, childId)
          /\ last' = Last("addChild", parentId, childId, "", Success(Undef))
    /\ Small(nodes')
    /\ UNCHANGED <<rootNodeIds, nextId, stack>>

RemoveChild ==
    /\ Call
    /\ \E parentId \in DOMAIN nodes \cup {NoId}, childId \in DOMAIN nodes \cup {NoId} :
          Returned(removeChild(nodes, parentId, childId), "removeChild", parentId, childId)
    /\ Small(nodes')
    /\ UNCHANGED <<rootNodeIds, nextId, stack>>

\* The updates the editors make: a new value for a factor, a new formula or
\* a new child list for a formula node; and any update of an absent id.
Updates(nodeId, values, formulas) ==
    IF nodeId \notin DOMAIN nodes THEN {ValueUpdate(Num(2))}
    ELSE IF nodes[nodeId].type = "factor" THEN {ValueUpdate(v) : v \in values}
    ELSE {FormulaUpdate(f) : f \in formulas}
         \cup {ChildrenUpdate(c) : c \in ChildLists(DOMAIN nodes)}

UpdateNode(values, formulas) ==
    /\ Call
    /\ \E nodeId \in DOMAIN nodes \cup {NoId} : \E updates \in Updates(nodeId, values, formulas) :
          /\ nodes' = updateNode(nodes, rootNodeIds, nodeId, updates)
          /\ last' = Last("updateNode", nodeId, NoId,
                          CHOOSE w \in updates.has : TRUE, Success(Undef))
    /\ Small(nodes')
    /\ UNCHANGED <<rootNodeIds, nextId, stack>>

\* The registry that a call left is taken over.
Loaded(reg) ==
    /\ nodes' = reg.nodes
    /\ rootNodeIds' = reg.rootNodeIds

DeleteNode ==
    /\ Call
    /\ \E nodeId \in DOMAIN nodes \cup {NoId} :
          /\ Loaded(deleteNode(Registry, nodeId))
          /\ last' = Last("deleteNode", nodeId, NoId,
                          IF nodeId \in DOMAIN nodes THEN "found" ELSE "absent",
                          Success(Undef))
    /\ Small(nodes')
    /\ UNCHANGED <<nextId, stack>>

\* The documents imported: the registry's own export, and that export made
\* unparseable, stripped of its "nodes" or "rootNodeIds" array, or with one
\* element of "nodes" replaced by something that is not a pair.
BadEntry ==
    [pair |-> FALSE, id |-> NoId,
     node |-> FormulaNode(NoId, "", "factor", <<>>, Undef, <<>>, Undef)]

Variants(doc) ==
    { doc,
      [doc EXCEPT !.parses = FALSE],
      [doc EXCEPT !.hasNodes = FALSE],
      [doc EXCEPT !.hasRoots = FALSE] }
    \cup {[doc EXCEPT !.nodes[i] = BadEntry] : i \in 1..Len(doc.nodes)}

Documents == Variants(exportToJson(Registry))

DocKind(doc) ==
    IF ~doc.parses THEN "unparseable"
    ELSE IF ~doc.hasNodes THEN "no nodes"
    ELSE IF ~doc.hasRoots THEN "no rootNodeIds"
    ELSE IF \E i \in 1..Len(doc.nodes) : ~doc.nodes[i].pair THEN "not a pair"
    ELSE "export"

Imported(r, doc) ==
    /\ Loaded(r.reg)
    /\ last' = Last("importFromJson", NoId, NoId, DocKind(doc), r.res)

Import ==
    /\ Call
    /\ \E doc \in Documents :
          Imported(importFromJson(Registry, doc), doc)
    /\ Small(nodes')
    /\ UNCHANGED <<nextId, stack>>

\* computeChildValue(parentId, childId, targetValue): reads the registry and
\* changes nothing.
Solved(parentId, childId, targetValue, out) ==
    [Last("computeChildValue", parentId, childId, out.stage, out.res)
        EXCEPT !.target = targetValue]

\* computeChildValue as it would be if it wrote the value found into the
\* child.
ComputeChildWriting(targets) ==
    /\ Call
    /\ \E parentId \in DOMAIN nodes \cup {NoId}, childId \in DOMAIN nodes \cup {NoId} :
          \E targetValue \in targets :
             \E out \in computeChildValue(nodes, parentId, childId, targetValue) :
                /\ last' = Solved(parentId, childId, targetValue, out)
                /\ nodes' = IF out.res.success
                            THEN [nodes EXCEPT ![childId].value = out.res.value]
                            ELSE nodes
    /\ UNCHANGED <<rootNodeIds, nextId, stack>>

ComputeChild(targets) ==
    /\ Call
    /\ \E parentId \in DOMAIN nodes \cup {NoId}, childId \in DOMAIN nodes \cup {NoId} :
          \E targetValue \in targets :
             \E out \in computeChildValue(nodes, parentId, childId, targetValue) :
                last' = Solved(parentId, childId, targetValue, out)
    /\ UNCHANGED <<nodes, rootNodeIds, nextId, stack>>

\* ----------------------------------------------- evaluateNode, step by step

\* The deepest stack of activations allowed.
MaxDepth == MaxNodes + 2

\* One activation of evaluateNode(nodeId, visitedNodes): where it is ("enter"
\* before the checks, "loop" at the head of the loop over childrenIds, "read"
\* when the call on child i has returned), the index i of the child in hand
\* and the context built so far.
Frame(nodeId, visitedNodes, pc, i, context) ==
    [id |-> nodeId, visited |-> visitedNodes, pc |-> pc, i |-> i, context |-> context]

Top == stack[Len(stack)]

\* The visited test as it would be if it never fired.
Unguarded(frame) == FALSE

\* `if (visitedNodes.has(nodeId))`
Revisited(frame) == frame.id \in frame.visited

\* The return as it would be if the caller and the callee shared one
\* visited set: what the callee added is seen by the caller afterwards.
ReturnShared(result) ==
    /\ stack' = IF Len(stack) = 1 THEN <<>>
                ELSE [SubSeq(stack, 1, Len(stack) - 1)
                         EXCEPT ![Len(stack) - 1].visited = @ \cup Top.visited \cup {Top.id}]
    /\ last' = IF Len(stack) = 1
               THEN Last("evaluateNode", Top.id, NoId, "returned", result)
               ELSE last

\* The top activation returns result: only the outermost caller looks at it.
Return(result) ==
    /\ stack' = SubSeq(stack, 1, Len(stack) - 1)
    /\ last' = IF Len(stack) = 1
               THEN Last("evaluateNode", Top.id, NoId, "returned", result)
               ELSE last

\* The top activation goes on as frame.
Goto(frame) ==
    /\ stack' = [stack EXCEPT ![Len(stack)] = frame]
    /\ UNCHANGED last

\* evaluateTree(nodeId) is called.
Begin ==
    /\ Call
    /\ \E nodeId \in DOMAIN nodes \cup {NoId} :
          /\ stack' = <<Frame(nodeId, {}, "enter", 1, EmptyCtx)>>
          /\ last' = Last("evaluateNode", nodeId, NoId, "running", Success(Undef))
    /\ UNCHANGED <<nodes, rootNodeIds, nextId>>

\* The checks at the head of evaluateNode, and the factor's branch.
EvalEnter ==
    /\ stack # <<>>
    /\ Top.pc = "enter"
    /\ IF Top.id \notin DOMAIN nodes
       THEN Return(Failure("Node not found")) /\ UNCHANGED nodes
       ELSE IF Revisited(Top)
       THEN Return(Failure("Circular dependency detected")) /\ UNCHANGED nodes
       ELSE IF nodes[Top.id].type = "factor"
       THEN /\ nodes' = [nodes EXCEPT ![Top.id].computedValue = OrZero(nodes[Top.id].value)]
            /\ Return(Success(OrZero(nodes[Top.id].value)))
       ELSE IF nodes[Top.id].formula = <<>>
       THEN Return(Failure("No formula defined")) /\ UNCHANGED nodes
       ELSE /\ Goto([Top EXCEPT !.pc = "loop", !.visited = @ \cup {Top.id}])
            /\ UNCHANGED nodes
    /\ UNCHANGED <<rootNodeIds, nextId, steps>>

\* The formula of the top activation has been evaluated to result.
Store(result) ==
    /\ nodes' = IF result.success
                THEN [nodes EXCEPT ![Top.id].computedValue = result.value]
                ELSE nodes
    /\ Return(result)

\* The head of the loop over childrenIds: the next child that exists is
\* evaluated with a copy of the visited set; after the last child the formula
\* is evaluated.
EvalLoop ==
    /\ stack # <<>>
    /\ Top.pc = "loop"
    /\ IF Top.i > Len(nodes[Top.id].childrenIds)
       THEN \E result \in {evaluateFormula(nodes[Top.id].formula, Top.context)} :
               Store(result)
       ELSE IF nodes[Top.id].childrenIds[Top.i] \notin DOMAIN nodes
       THEN Goto([Top EXCEPT !.i = @ + 1]) /\ UNCHANGED nodes
       ELSE /\ Len(stack) < MaxDepth
            /\ stack' = Append([stack EXCEPT ![Len(stack)].pc = "read"],
                               Frame(nodes[Top.id].childrenIds[Top.i], Top.visited,
                                     "enter", 1, EmptyCtx))
            /\ UNCHANGED <<nodes, last>>
    /\ UNCHANGED <<rootNodeIds, nextId, steps>>

\* `context[child.name] = child.computedValue ?? 0` after the call on the
\* child, whatever that call returned.
EvalRead ==
    /\ stack # <<>>
    /\ Top.pc = "read"
    /\ Goto([Top EXCEPT
                !.pc = "loop",
                !.i = @ + 1,
                !.context = CtxSet(@, nodes[nodes[Top.id].childrenIds[Top.i]].name,
                                   OrZero(nodes[nodes[Top.id].childrenIds[Top.i]].computedValue))])
    /\ UNCHANGED <<nodes, rootNodeIds, nextId, steps>>

Next ==
    \/ CreateFactor(FactorValues)
    \/ CreateFormula(Formulas)
    \/ AddRoot
    \/ RemoveRoot
    \/ Evaluate
    \/ AddChild
    \/ RemoveChild
    \/ UpdateNode(FactorValues, Formulas)
    \/ DeleteNode
    \/ Import
    \/ ComputeChild(Targets)

Spec == Init /\ [][Next]_vars

\* Only the calls that link and unlink nodes.
NextLinks ==
    \/ CreateFactor(FactorValues)
    \/ CreateFormula(Formulas)
    \/ AddChild
    \/ RemoveChild

SpecLinks == Init /\ [][NextLinks]_vars

\* Linking, marking roots and deleting.
NextDelete ==
    \/ CreateFactor(FactorValues)
    \/ CreateFormula(Formulas)
    \/ AddChild
    \/ AddRoot
    \/ DeleteNode

SpecDelete == Init /\ [][NextDelete]_vars

\* Building a graph, marking roots and editing nodes.
NextUpdate ==
    \/ CreateFactor(FactorValues)
    \/ CreateFormula(UpdateFormulas)
    \/ AddRoot
    \/ UpdateNode(FactorValues, UpdateFormulas)

SpecUpdate == Init /\ [][NextUpdate]_vars

\* Building a graph, editing it, and exporting and importing it.
NextPersist ==
    \/ CreateFactor(PersistValues)
    \/ CreateFormula(PersistFormulas)
    \/ AddRoot
    \/ UpdateNode(PersistValues, PersistFormulas)
    \/ Import

SpecPersist == Init /\ [][NextPersist]_vars

\* Linking nodes, into cycles too, and evaluating step by step.
NextEval ==
    \/ CreateFactor(EvalValues)
    \/ CreateFormula(EvalFormulas)
    \/ AddChild
    \/ Begin
    \/ EvalEnter
    \/ EvalLoop
    \/ EvalRead

SpecEval == Init /\ [][NextEval]_vars

\* An evaluation in progress is not left waiting.
SpecEvalFair ==
    /\ SpecEval
    /\ WF_vars(EvalEnter) /\ WF_vars(EvalLoop) /\ WF_vars(EvalRead)

\* Building a graph and solving a formula for one of its children.
NextSolve ==
    \/ CreateFactor(SolveValues)
    \/ CreateFormula(SolveFormulas)
    \/ ComputeChild(Targets)

SpecSolve == Init /\ [][NextSolve]_vars

\* ------------------------------------------------------------------ claims

\* The ids of the registry nodes that list n among their children.
ParentsOf(ns, n) == {p \in DOMAIN ns : Includes(ns[p].childrenIds, n)}

\* C1: after deleteNode(id) of a node of the registry, id is in no node's
\* childrenIds and in no node's parentIds, is not in rootNodeIds and is not a
\* key of the registry.
C1_DeleteUnlinks ==
    (last.op = "deleteNode" /\ last.what = "found") =>
        /\ last.a \notin DOMAIN nodes
        /\ ~Includes(rootNodeIds, last.a)
        /\ \A n \in DOMAIN nodes :
              ~Includes(nodes[n].childrenIds, last.a) /\ ~Includes(nodes[n].parentIds, last.a)

\* C2: for every node n of the registry, the ids in n.parentIds are exactly
\* the ids of the registry nodes that have n.id in their childrenIds.
C2_Mirror ==
    \A n \in DOMAIN nodes : Elems(nodes[n].parentIds) = ParentsOf(nodes, n)

\* A child has just been unlinked from one of two parents.
C2_Witness ==
    /\ last.op = "removeChild" /\ last.res.success
    /\ \E n \in DOMAIN nodes : Len(nodes[n].parentIds) = 1 /\ n = last.b
    /\ \E n \in DOMAIN nodes : nodes[n].childrenIds # <<>>

\* C3: when updateNode has changed a node's childrenIds, parentIds still
\* mirrors childrenIds for every node of the registry.
C3_UpdateKeepsMirror ==
    (last.op = "updateNode" /\ last.what = "childrenIds" /\ last.a \in DOMAIN nodes) => C2_Mirror

\* The reference value of a node: a factor's value, and for a formula node
\* the arithmetic value of its formula with every child's name bound to the
\* child's reference value.  NaN where there is none (a missing node, a cycle,
\* an unbound name, a malformed formula).
RECURSIVE Reference(_, _, _), ReferenceContext(_, _, _, _)

\* The formula with every bound name replaced by its number, taken whole.
Bind(formula, context) ==
    [i \in 1..Len(formula) |->
        IF SrcTok(formula[i]).k = "id" /\ formula[i] \in DOMAIN context
        THEN NumTok(context[formula[i]])
        ELSE SrcTok(formula[i])]

ReferenceContext(ns, childIds, seen, context) ==
    IF childIds = <<>> THEN context
    ELSE IF Head(childIds) \notin DOMAIN ns
         THEN ReferenceContext(ns, Tail(childIds), seen, context)
    ELSE ReferenceContext(ns, Tail(childIds), seen,
                          CtxSet(context, ns[Head(childIds)].name,
                                 Reference(ns, Head(childIds), seen)))

Reference(ns, id, seen) ==
    IF id \notin DOMAIN ns \/ id \in seen THEN NaN
    ELSE IF ns[id].type = "factor" THEN OrZero(ns[id].value)
    ELSE LET context == ReferenceContext(ns, ns[id].childrenIds, seen \cup {id}, EmptyCtx)
             toks == Bind(ns[id].formula, context)
             r == Arithmetic(toks)
         IN  IF AllowedChars(toks) /\ r.ok THEN r.v ELSE NaN

\* The ids reachable from id along childrenIds, in one step or more.
RECURSIVE Below(_, _, _)
Below(ns, frontier, found) ==
    LET next == {c \in DOMAIN ns : \E p \in frontier : Includes(ns[p].childrenIds, c)} \ found
    IN  IF next = {} THEN found ELSE Below(ns, next, found \cup next)

Descendants(ns, id) == IF id \in DOMAIN ns THEN Below(ns, {id}, {}) ELSE {}

Acyclic(ns) == \A id \in DOMAIN ns : id \notin Descendants(ns, id)

\* An acyclic graph in which every formula has a finite reference value.
AllValid(ns) ==
    /\ Acyclic(ns)
    /\ \A id \in DOMAIN ns : Reference(ns, id, {}).k = "fin"

\* Every formula of the graph, given its children's reference values, is
\* evaluated by evaluateFormula to its reference value (no failure comes from
\* the text that the substitution produces).
EvaluatesCleanly(ns) ==
    \A id \in DOMAIN ns :
        ns[id].type = "formula" =>
            LET context == ReferenceContext(ns, ns[id].childrenIds, {id}, EmptyCtx)
                result == evaluateFormula(ns[id].formula, context)
            IN  result.success /\ result.value = Reference(ns, id, {})

\* C6: (a) right after createFormulaNode of 'a * b' over two factors a and b
\* the new node's computedValue is a.value * b.value; (b) right after
\* updateNode(f, {value: v}) on a factor f of a graph whose formulas are all
\* valid (and evaluate cleanly), every formula node that depends on f holds
\* its reference value, whether or not any node is a root.
C6_CascadeEverywhere ==
    /\ (/\ last.op = "createFormulaNode"
        /\ nodes[last.a].formula = <<"a", "*", "b">>
        /\ \E x, y \in DOMAIN nodes :
              /\ nodes[last.a].childrenIds = <<x, y>>
              /\ nodes[x].type = "factor" /\ nodes[x].name = "a"
              /\ nodes[y].type = "factor" /\ nodes[y].name = "b")
       => \E x, y \in DOMAIN nodes :
              /\ nodes[last.a].childrenIds = <<x, y>>
              /\ nodes[last.a].computedValue = Mul(nodes[x].value, nodes[y].value)
    /\ (/\ last.op = "updateNode" /\ last.what = "value"
        /\ last.a \in DOMAIN nodes
        /\ AllValid(nodes) /\ EvaluatesCleanly(nodes))
       => \A f \in DOMAIN nodes :
              (nodes[f].type = "formula" /\ last.a \in Descendants(nodes, f))
              => nodes[f].computedValue = Reference(nodes, f, {})

\* C7: in an acyclic graph whose formulas are all valid, right after
\* updateNode has changed the value of a factor with two or more parents,
\* every root that depends on that factor holds its reference value.
C7_SharedFactorCascade ==
    (/\ last.op = "updateNode" /\ last.what = "value"
     /\ last.a \in DOMAIN nodes
     /\ nodes[last.a].type = "factor"
     /\ Cardinality(ParentsOf(nodes, last.a)) >= 2
     /\ AllValid(nodes))
    => \A r \in Elems(rootNodeIds) :
          (r \in DOMAIN nodes /\ last.a \in Descendants(nodes, r))
          => nodes[r].computedValue = Reference(nodes, r, {})

\* The statement of C7 for the graphs that evaluate cleanly.
C7_CleanCascade ==
    (/\ last.op = "updateNode" /\ last.what = "value"
     /\ last.a \in DOMAIN nodes
     /\ nodes[last.a].type = "factor"
     /\ Cardinality(ParentsOf(nodes, last.a)) >= 2
     /\ AllValid(nodes) /\ EvaluatesCleanly(nodes))
    => \A r \in Elems(rootNodeIds) :
          (r \in DOMAIN nodes /\ last.a \in Descendants(nodes, r))
          => nodes[r].computedValue = Reference(nodes, r, {})

\* The names of the children of node id that exist.
ChildNames(ns, id) ==
    {ns[c].name : c \in {x \in Elems(ns[id].childrenIds) : x \in DOMAIN ns}}

\* A formula node whose formula is not empty and names only its children.
ValidExpression(ns, id) ==
    /\ ns[id].type = "formula"
    /\ ns[id].formula # <<>>
    /\ \A i \in 1..Len(ns[id].formula) :
          SrcTok(ns[id].formula[i]).k = "id" => ns[id].formula[i] \in ChildNames(ns, id)

\* C4: when evaluateNode(A, {}) has returned for a formula node A that lists
\* B as a child while B lists A as a child, both with valid expressions, the
\* result is the failure 'Circular dependency detected'.
C4_CycleReported ==
    (/\ stack = <<>>
     /\ last.op = "evaluateNode" /\ last.what = "returned"
     /\ last.a \in DOMAIN nodes
     /\ ValidExpression(nodes, last.a)
     /\ \E b \in DOMAIN nodes \ {last.a} :
           /\ ValidExpression(nodes, b)
           /\ Includes(nodes[last.a].childrenIds, b)
           /\ Includes(nodes[b].childrenIds, last.a))
    => (~last.res.success /\ last.res.error = "Circular dependency detected")

\* No id is entered twice on one path: an activation that is past the check
\* of the visited set has an id that no activation below it has.
NoRepeat ==
    \A i, j \in 1..Len(stack) :
        (i < j /\ stack[j].pc # "enter") => stack[i].id # stack[j].id

\* C5: evaluateNode terminates on every registry, cyclic ones included: the
\* recursion never descends through the same id twice on one path, and an
\* evaluation that has started returns.
C5_EvaluateTerminates ==
    /\ [](NoRepeat /\ Len(stack) <= Cardinality(DOMAIN nodes) + 1)
    /\ (stack # <<>>) ~> (stack = <<>>)

\* An evaluation started at a node that lies on a cycle has returned.
C5_Witness ==
    /\ stack = <<>>
    /\ last.op = "evaluateNode" /\ last.what = "returned"
    /\ last.a \in Descendants(nodes, last.a)

\* C8: importFromJson of the document that exportToJson has just produced
\* leaves every node with the computedValue it had and the root list as it
\* was.
C8_RoundTrip ==
    [][(last'.op = "importFromJson" /\ last'.what = "export")
       => /\ rootNodeIds' = rootNodeIds
          /\ DOMAIN nodes' = DOMAIN nodes
          /\ \A id \in DOMAIN nodes : nodes'[id].computedValue = nodes[id].computedValue]_vars

\* C9: when importFromJson returns a failure, the node map and the root list
\* are what they were before the call.
C9_FailedImportKeepsRegistry ==
    [][(last'.op = "importFromJson" /\ ~last'.res.success)
       => (nodes' = nodes /\ rootNodeIds' = rootNodeIds)]_vars

\* The value of the parent's formula with the child solved for bound to v
\* and every other child bound to its computedValue, by arithmetic alone.
WithChild(ns, parentId, childId, v) ==
    LET toks == Bind(ns[parentId].formula,
                     buildContext(ns, ns[parentId].childrenIds, childId, v, EmptyCtx))
        r == Arithmetic(toks)
    IN  IF AllowedChars(toks) /\ r.ok THEN r.v ELSE NaN

\* C10: when computeChildValue has succeeded through trySolveAlgebraically
\* with value v, the parent's formula with the child bound to v and every
\* other child bound to its computedValue has exactly the target as value.
C10_AlgebraicInverse ==
    (/\ last.op = "computeChildValue" /\ last.what = "algebraic"
     /\ last.res.success)
    => WithChild(nodes, last.a, last.b, last.res.value) = last.target

\* ------------------------------------------------------- claims C11 to C20

\* The formulas of the graphs whose preconditions are probed: an empty one
\* and a product.
PrecheckFormulas == { <<>>, <<"a", "*", "b">> }

\* Building a graph, with formulas that can be empty, and solving.
NextPrecheck ==
    \/ CreateFactor(SolveValues)
    \/ CreateFormula(PrecheckFormulas)
    \/ ComputeChild(Targets)

SpecPrecheck == Init /\ [][NextPrecheck]_vars

\* The error of the first precondition that fails when the parent's type is
\* looked at before the child's existence ("" when none fails).
TypeBeforeChild(ns, parentId, childId) ==
    IF parentId \notin DOMAIN ns THEN "Parent node not found"
    ELSE IF ns[parentId].type # "formula" THEN "Parent must be a formula node"
    ELSE IF childId \notin DOMAIN ns THEN "Child node not found"
    ELSE IF ~Includes(ns[parentId].childrenIds, childId)
         THEN "Child is not part of parent formula"
    ELSE IF ns[parentId].formula = <<>> THEN "Parent has no formula"
    ELSE ""

\* The same when the child's existence is looked at before the parent's type.
ChildBeforeType(ns, parentId, childId) ==
    IF parentId \notin DOMAIN ns THEN "Parent node not found"
    ELSE IF childId \notin DOMAIN ns THEN "Child node not found"
    ELSE TypeBeforeChild(ns, parentId, childId)

\* A call of computeChildValue answered as an order of checks prescribes: the
\* failure of the first failed precondition, and a solver's answer if none
\* fails.
AnsweredAs(expected) ==
    IF expected = "" THEN last.what \in {"algebraic", "numerical"}
    ELSE last.what = "" /\ last.res = Failure(expected)

\* C12 as stated: computeChildValue returns the first violated precondition
\* in the order parent absent, parent not a formula, child absent, child not
\* among the parent's children, parent without formula.
C12_TypeBeforeChild ==
    last.op = "computeChildValue"
    => AnsweredAs(TypeBeforeChild(nodes, last.a, last.b))

\* C12: computeChildValue returns the first violated precondition in the
\* order parent absent, child absent, parent not a formula, child not among
\* the parent's children, parent without formula; with none violated the
\* answer is a solver's.
C12_ChildBeforeType ==
    last.op = "computeChildValue"
    => AnsweredAs(ChildBeforeType(nodes, last.a, last.b))

\* computeChildValue has been called with a factor as parent and an absent
\* child, and has reported the child.
C12_Witness ==
    /\ last.op = "computeChildValue"
    /\ last.a \in DOMAIN nodes /\ nodes[last.a].type = "factor"
    /\ last.b \notin DOMAIN nodes
    /\ last.res = Failure("Child node not found")

\* The graphs that are evaluated whole: a factor that can be zero, and an
\* empty formula, a quotient, a sum, and a sum that names x, which no node
\* is called.
ComputeValues == {Num(0), Num(2)}

ComputeFormulas ==
    { <<>>,
      <<"2", "/", "a">>,
      <<"a", "+", "b">>,
      <<"a", "+", "x">> }

\* updateNodeValue(node, newValue) of the builder: updateNode(node.id,
\* {value: newValue}) on a node of the list.
UpdateValue(values) ==
    /\ Call
    /\ \E nodeId \in DOMAIN nodes, newValue \in values :
          /\ nodes' = updateNode(nodes, rootNodeIds, nodeId, ValueUpdate(newValue))
          /\ last' = Last("updateNode", nodeId, NoId, "value", Success(Undef))
    /\ Small(nodes')
    /\ UNCHANGED <<rootNodeIds, nextId, stack>>

\* The registry and the result of a repeated call are taken over.
Repeated(r, nodeId) ==
    /\ nodes' = r.ns
    /\ last' = Last("evaluateNode", nodeId, NoId, "again", r.res)

\* evaluateTree(nodeId) once more, on the node whose evaluation has just
\* returned.
Reevaluate ==
    /\ Call
    /\ last.op = "evaluateNode"
    /\ Repeated(evaluateNode(nodes, last.a, {}), last.a)
    /\ Small(nodes')
    /\ UNCHANGED <<rootNodeIds, nextId, stack>>

\* Building a graph, editing values (a value can be taken away: updateNode
\* with {value: undefined}) and evaluating.
NextCompute ==
    \/ CreateFactor(ComputeValues)
    \/ CreateFormula(ComputeFormulas)
    \/ AddChild
    \/ UpdateValue(ComputeValues \cup {Undef})
    \/ Evaluate
    \/ Reevaluate

SpecCompute == Init /\ [][NextCompute]_vars

\* The context that the loop of evaluateNode builds from the registry ns as
\* the call leaves it: each existing child's name with its computedValue.
RECURSIVE ContextOf(_, _, _)
ContextOf(ns, childIds, context) ==
    IF childIds = <<>> THEN context
    ELSE IF Head(childIds) \notin DOMAIN ns THEN ContextOf(ns, Tail(childIds), context)
    ELSE ContextOf(ns, Tail(childIds),
                   CtxSet(context, ns[Head(childIds)].name,
                          OrZero(ns[Head(childIds)].computedValue)))

\* The expression of node id after substitution.
Expression(ns, id) == Substitute(ns[id].formula, ContextOf(ns, ns[id].childrenIds, EmptyCtx))

\* The expression divides by a literal zero.
DividesByZero(toks) ==
    \E i \in 1..(Len(toks) - 1) :
        toks[i] = OpTok("/") /\ toks[i + 1].k = "num" /\ IsZero(toks[i + 1].v)

\* evaluateTree has just returned for a formula node of an acyclic graph.
EvaluatedFormula ==
    /\ last'.op = "evaluateNode"
    /\ steps' = steps + 1
    /\ last'.a \in DOMAIN nodes
    /\ nodes[last'.a].type = "formula"
    /\ nodes[last'.a].formula # <<>>
    /\ Acyclic(nodes)

\* C13: when evaluateNode is called on a formula node whose expression,
\* after substitution, divides by zero, it returns a failure and the node's
\* computedValue is what it was before the call.
C13_DivisionByZeroFails ==
    [][(EvaluatedFormula /\ DividesByZero(Expression(nodes', last'.a)))
       => (/\ ~last'.res.success
           /\ nodes'[last'.a].computedValue = nodes[last'.a].computedValue)]_vars

\* C14: when evaluateNode is called on a formula node whose expression,
\* after substitution, holds a character outside digits . + - * / ( ), such
\* as an identifier that names no child, it returns the failure thrown by
\* the whitelist test, not one of evaluating the text, and the node's
\* computedValue is what it was before the call.
C14_WhitelistRejects ==
    [][(EvaluatedFormula /\ ~AllowedChars(Expression(nodes', last'.a)))
       => (/\ last'.res = Failure("Formula evaluation error: Error: Invalid characters in expression")
           /\ nodes'[last'.a].computedValue = nodes[last'.a].computedValue)]_vars

\* evaluateTree has returned a failure for a formula node whose formula
\* names x, which is no child of it.
C14_Witness ==
    /\ last.op = "evaluateNode"
    /\ last.a \in DOMAIN nodes
    /\ nodes[last.a].formula = <<"a", "+", "x">>
    /\ Acyclic(nodes)
    /\ ~AllowedChars(Expression(nodes, last.a))
    /\ ~last.res.success

\* The formulas of the graphs evaluated into every failure: an empty one, a
\* quotient that is 0 / 0 when a is 0, a sum without its second operand,
\* and a sum that names x, which no node is called.
StaleFormulas ==
    { <<>>,
      <<"a", "/", "a">>,
      <<"a", "+">>,
      <<"a", "+", "x">> }

\* evaluateNode(nodeId, visitedNodes) called with any set of ids of the
\* registry as visited.
EvaluateNode ==
    /\ Call
    /\ \E nodeId \in DOMAIN nodes \cup {NoId}, visitedNodes \in SUBSET DOMAIN nodes :
          Returned(evaluateNode(nodes, nodeId, visitedNodes), "evaluateNode", nodeId, NoId)
    /\ Small(nodes')
    /\ UNCHANGED <<rootNodeIds, nextId, stack>>

\* Building a graph, with cycles too, editing factor values and evaluating
\* with any visited set.
NextStale ==
    \/ CreateFactor(ComputeValues)
    \/ CreateFormula(StaleFormulas)
    \/ AddChild
    \/ UpdateValue(ComputeValues)
    \/ EvaluateNode

SpecStale == Init /\ [][NextStale]_vars

\* C15: whenever evaluateNode(nodeId, visitedNodes) returns a failure for a
\* node of the registry ('Circular dependency detected', 'No formula
\* defined' or a failure of evaluateFormula), the node's computedValue is
\* what it was before the call, undefined included; for an id that is not in
\* the registry it returns 'Node not found' and no node is changed.
C15_StaleOnFailure ==
    [][(last'.op = "evaluateNode" /\ steps' = steps + 1 /\ ~last'.res.success)
       => IF last'.a \in DOMAIN nodes
          THEN nodes'[last'.a].computedValue = nodes[last'.a].computedValue
          ELSE nodes' = nodes]_vars

\* evaluateNode has returned the failure of evaluateFormula on a result that
\* is NaN, for a node that still holds the number computed earlier.
C15_Witness ==
    /\ last.op = "evaluateNode"
    /\ last.res = Failure("Formula evaluation resulted in non-numeric value")
    /\ last.a \in DOMAIN nodes
    /\ nodes[last.a].computedValue.k = "fin"

\* C16: when evaluateTree has returned for a factor, the result is the
\* success of its value (0 for a value that is absent) and its computedValue
\* is that number; right after createFactorNode, and right after updateNode
\* has given a factor a value, the factor's computedValue is its value.
C16_FactorValue ==
    /\ (/\ last.op = "evaluateNode"
        /\ last.a \in DOMAIN nodes
        /\ nodes[last.a].type = "factor")
       => (/\ last.res = Success(OrZero(nodes[last.a].value))
           /\ nodes[last.a].computedValue = OrZero(nodes[last.a].value))
    /\ last.op = "createFactorNode"
       => nodes[last.a].computedValue = nodes[last.a].value
    /\ (/\ last.op = "updateNode"
        /\ nodes[last.a].type = "factor"
        /\ nodes[last.a].value.k # "undef")
       => nodes[last.a].computedValue = nodes[last.a].value

\* evaluateTree has returned for a factor whose value is absent and whose
\* computedValue it has set to 0.
C16_Witness ==
    /\ last.op = "evaluateNode"
    /\ last.a \in DOMAIN nodes
    /\ nodes[last.a].type = "factor"
    /\ nodes[last.a].value = Undef
    /\ nodes[last.a].computedValue = Num(0)
    /\ last.res = Success(Num(0))

\* Node id and what is below it hold no cycle.
AcyclicBelow(ns, id) ==
    \A d \in {id} \cup Descendants(ns, id) : d \notin Descendants(ns, d)

\* C17: when evaluateTree is called on a formula node with nothing but
\* acyclic descendants right after an evaluateTree call on the same node,
\* it returns the same result as that call, and the computedValue of the
\* node and of each of its descendants is what that call left.
C17_EvaluateTwice ==
    [][(/\ last.op = "evaluateNode" /\ last'.op = "evaluateNode"
        /\ steps' = steps + 1
        /\ last'.a = last.a
        /\ last.a \in DOMAIN nodes
        /\ nodes[last.a].type = "formula"
        /\ AcyclicBelow(nodes, last.a))
       => (/\ last'.res = last.res
           /\ \A d \in {last.a} \cup Descendants(nodes, last.a) :
                 nodes'[d].computedValue = nodes[d].computedValue)]_vars

\* evaluateTree has been called a second time in a row on a formula node
\* that has a formula node among its children, and has succeeded.
C17_Witness ==
    /\ last.op = "evaluateNode" /\ last.what = "again"
    /\ last.res.success
    /\ last.a \in DOMAIN nodes
    /\ nodes[last.a].type = "formula"
    /\ AcyclicBelow(nodes, last.a)
    /\ \E c \in Descendants(nodes, last.a) : nodes[c].type = "formula"

\* C18: in every state reached by createFactorNode, createFormulaNode,
\* addChild and removeChild, every factor has an empty childrenIds.
C18_FactorsAreLeaves ==
    \A id \in DOMAIN nodes : nodes[id].type = "factor" => nodes[id].childrenIds = <<>>

\* addRootNode(nodeId) with any id, one that is not in the registry
\* included: `what` tells whether the id was in the root list.
AddRootNode ==
    /\ Call
    /\ \E nodeId \in DOMAIN nodes \cup {NoId} :
          /\ rootNodeIds' = addRootNode(rootNodeIds, nodeId)
          /\ last' = Last("addRootNode", nodeId, NoId,
                          IF Includes(rootNodeIds, nodeId) THEN "present" ELSE "absent",
                          Success(Undef))
    /\ UNCHANGED <<nodes, nextId, stack>>

\* removeRootNode(nodeId) with any id.
RemoveRootNode ==
    /\ Call
    /\ \E nodeId \in DOMAIN nodes \cup {NoId} :
          /\ rootNodeIds' = removeRootNode(rootNodeIds, nodeId)
          /\ last' = Last("removeRootNode", nodeId, NoId,
                          IF Includes(rootNodeIds, nodeId) THEN "present" ELSE "absent",
                          Success(Undef))
    /\ UNCHANGED <<nodes, nextId, stack>>

\* Building a graph and marking and unmarking roots.
NextRoots ==
    \/ CreateFactor(EvalValues)
    \/ CreateFormula(EvalFormulas)
    \/ AddRootNode
    \/ RemoveRootNode

SpecRoots == Init /\ [][NextRoots]_vars

\* The list without the id, in order.
RECURSIVE Without(_, _)
Without(list, id) ==
    IF list = <<>> THEN <<>>
    ELSE IF Head(list) = id THEN Without(Tail(list), id)
    ELSE <<Head(list)>> \o Without(Tail(list), id)

\* No id is twice in the list.
Distinct(list) == \A i, j \in 1..Len(list) : list[i] = list[j] => i = j

C20_SolveReadsOnly ==
    [][(steps' = steps + 1 /\ last'.op = "computeChildValue")
       => (nodes' = nodes /\ rootNodeIds' = rootNodeIds)]_vars

\* computeChildValue has succeeded with a value that the child does not
\* hold.
C20_Witness ==
    /\ last.op = "computeChildValue"
    /\ last.res.success
    /\ last.res.value # nodes[last.b].value
    /\ last.res.value # nodes[last.b].computedValue

\* The graphs whose solved value is applied: the four formulas of one
\* operator over a and b, and a sum that makes b depend on a.
ApplyFormulas ==
    { <<"a", "*", "b">>,
      <<"a", "+", "b">>,
      <<"b", "-", "a">>,
      <<"b", "/", "a">>,
      <<"a", "+", "1">> }

\* What the builder keeps of the computeChild call while its value is
\* applied and the parent evaluated again.
Kept(op, what, res) ==
    [Last(op, last.a, last.b, what, res) EXCEPT !.target = last.target]

\* applyComputedValue of the builder, after a computeChild that has set
\* computedChildValue: updateNode(computeChildId, {value: computedChildValue}).
ApplyComputedValue ==
    /\ stack = <<>>
    /\ last.op = "computeChildValue"
    /\ last.res.success /\ last.res.value.k # "undef"
    /\ last.b \in DOMAIN nodes
    /\ nodes' = updateNode(nodes, rootNodeIds, last.b, ValueUpdate(last.res.value))
    /\ Small(nodes')
    /\ last' = Kept("applyComputedValue", "", Success(Undef))
    /\ UNCHANGED <<rootNodeIds, nextId, steps, stack>>

\* The registry and the result of the evaluation are taken over.
Refreshed(r) ==
    /\ nodes' = r.ns
    /\ last' = Kept("evaluateNode", "applied", r.res)

\* evaluateTree(parentId) on the parent of the computeChild call, once the
\* value has been applied.
EvaluateApplied ==
    /\ stack = <<>>
    /\ last.op = "applyComputedValue"
    /\ Refreshed(evaluateNode(nodes, last.a, {}))
    /\ Small(nodes')
    /\ UNCHANGED <<rootNodeIds, nextId, steps, stack>>

\* Building a graph, solving a formula for a child, applying the value and
\* evaluating the parent.
NextApply ==
    \/ CreateFactor(SolveValues)
    \/ CreateFormula(ApplyFormulas)
    \/ ComputeChild(Targets)
    \/ ApplyComputedValue
    \/ EvaluateApplied

SpecApply == Init /\ [][NextApply]_vars

\* The formula of node id is one operator between the names of its two
\* children.
SingleBinary(ns, id) ==
    /\ ns[id].type = "formula"
    /\ Len(ns[id].formula) = 3
    /\ ns[id].formula[2] \in {"+", "-", "*", "/"}
    /\ Len(ns[id].childrenIds) = 2
    /\ {ns[id].formula[1], ns[id].formula[3]} = ChildNames(ns, id)
    /\ Cardinality(ChildNames(ns, id)) = 2

\* C11: when computeChildValue(parent, c, target) has succeeded with v for a
\* parent whose formula is one operator between the names of its two
\* children and a factor c, and updateNode(c, {value: v}) and then
\* evaluateTree(parent) have been called, the parent's computedValue is the
\* target, whatever the other child is.
C11_AppliedValueGivesTarget ==
    (/\ last.op = "evaluateNode" /\ last.what = "applied"
     /\ SingleBinary(nodes, last.a)
     /\ nodes[last.b].type = "factor")
    => nodes[last.a].computedValue = last.target

\* ------------------------------------------------------- claims C21 to C30

\* C22: in an acyclic graph, nodes with several parents included, no call
\* of evaluateNode made during an evaluateTree finds its id in the visited
\* set it is given, so none returns 'Circular dependency detected'.
C22_NoFalseCycle ==
    (/\ stack # <<>>
     /\ Top.pc = "enter"
     /\ Acyclic(nodes))
    => Top.id \notin Top.visited

\* The second child of the node under evaluation is entered, and it is below
\* the first child too, which has been evaluated already.
C22_Witness ==
    /\ Len(stack) = 2
    /\ Top.pc = "enter"
    /\ stack[1].i = 2
    /\ Acyclic(nodes)
    /\ Top.id \in Descendants(nodes, nodes[stack[1].id].childrenIds[1])
    /\ Top.id \notin Top.visited

\* The nodes that have id below them.
Ancestors(ns, id) == {p \in DOMAIN ns : id \in Descendants(ns, p)}

\* updateNode has just been called with a formula or a child list on a
\* formula node of the registry.
FormulaEdited ==
    /\ steps' = steps + 1
    /\ last'.op = "updateNode"
    /\ last'.what \in {"formula", "childrenIds"}
    /\ last'.a \in DOMAIN nodes
    /\ nodes[last'.a].type = "formula"

\* The node edited holds the value of its formula over its children's
\* computedValue, if that value is a success.
Reevaluated(ns, id, result) ==
    (ns[id].formula # <<>> /\ result.success) => ns[id].computedValue = result.value

LinkEdited ==
    /\ steps' = steps + 1
    /\ last'.op \in {"addChild", "removeChild"}
    /\ last'.a \in DOMAIN nodes
    /\ nodes'[last'.a].childrenIds # nodes[last'.a].childrenIds

BinaryAt(toks, ops) ==
    {i \in 2..(Len(toks) - 1) : toks[i] \in ops /\ toks[i - 1] \notin {"+", "-", "*", "/"}}

\* The position of the top-level operator of a formula without parentheses
\* under precedence and left-associativity: the last binary + or -, else the
\* last * or / (0 when there is no operator).
TopOperator(toks) ==
    LET additive == BinaryAt(toks, {"+", "-"})
        multiplicative == BinaryAt(toks, {"*", "/"})
        at == IF additive # {} THEN additive ELSE multiplicative
    IN  IF at = {} THEN 0 ELSE CHOOSE i \in at : \A j \in at : j <= i

\* The name is the whole left or the whole right operand of the top-level
\* operator.
DirectOperand(toks, name) ==
    LET top == TopOperator(toks)
    IN  /\ top # 0
        /\ \/ (top = 2 /\ toks[1] = name)
           \/ (top = Len(toks) - 1 /\ toks[Len(toks)] = name)

\* C25: computeChildValue succeeds through trySolveAlgebraically only when
\* the child's name is a direct operand of the top-level operator of the
\* parent's formula.
C25_AlgebraicOnlyDirect ==
    (/\ last.op = "computeChildValue" /\ last.what = "algebraic"
     /\ last.res.success)
    => DirectOperand(nodes[last.a].formula, nodes[last.b].name)

\* maxIterations of solveNumerically.
MaxIterations == 100

\* What the loop of solveNumerically tells apart in f1, the objective minus
\* the target: within the tolerance, within ten tolerances, finite and
\* farther away, infinite, NaN.
Residues == {"within", "near", "far", "infinite", "nan"}

\* The activation of solveNumerically: the counter i of its loop, the passes
\* through the body so far, whether every pass so far took the branch of the
\* stalled slope, and f1.  x0, x1 and f0 are not followed: every outcome of a
\* test on them is taken to be possible.
Secant(pc, i, passes, stalled, f1) ==
    [pc |-> pc, i |-> i, passes |-> passes, stalled |-> stalled, f1 |-> f1]

\* solveNumerically is called: the two guesses are evaluated.
SolveBegin ==
    /\ Call
    /\ \E f1 \in Residues : stack' = <<Secant("test", 0, 0, TRUE, f1)>>
    /\ last' = Last("solveNumerically", NoId, NoId, "running", Success(Undef))
    /\ UNCHANGED <<nodes, rootNodeIds, nextId>>

\* solveNumerically returns (the value x1 of a success is not followed).
SecantReturn(result) ==
    /\ stack' = <<>>
    /\ last' = Last("solveNumerically", NoId, NoId, "returned", result)

\* The test i < maxIterations of the loop, and the end of the function once
\* it fails.
SecantLoop ==
    /\ stack # <<>>
    /\ Top.pc = "test"
    /\ IF Top.i < MaxIterations
       THEN Goto([Top EXCEPT !.pc = "body", !.passes = @ + 1])
       ELSE IF Top.f1 \in {"within", "near"}
            THEN SecantReturn(Success(Undef))
            ELSE SecantReturn(Failure("Could not converge to a solution within tolerance"))
    /\ UNCHANGED <<nodes, rootNodeIds, nextId, steps>>

\* The body of the loop as it would be if continue skipped the i++ of the
\* for statement.
SecantPassStalling ==
    /\ stack # <<>>
    /\ Top.pc = "body"
    /\ \/ /\ Top.f1 = "within"
          /\ SecantReturn(Success(Undef))
       \/ /\ Top.f1 \in {"near", "far"}
          /\ \E f1 \in Residues : Goto([Top EXCEPT !.pc = "test", !.f1 = f1])
       \/ /\ Top.f1 # "within"
          /\ SecantReturn(Failure("Numerical solution diverged"))
       \/ /\ Top.f1 \in {"near", "far"}
          /\ SecantReturn(Failure("Formula evaluation resulted in NaN"))
       \/ /\ Top.f1 \in {"near", "far"}
          /\ \E f1 \in Residues \ {"nan"} :
                Goto([Top EXCEPT !.pc = "test", !.i = @ + 1, !.stalled = FALSE, !.f1 = f1])
    /\ UNCHANGED <<nodes, rootNodeIds, nextId, steps>>

\* One pass through the body of the loop: x1 is accepted when f1 is within
\* the tolerance; a stalled slope (f1 and f0 finite) perturbs x1, evaluates it
\* and continues with i++; else xNext is computed, which is not finite when
\* f1 is not and may overflow otherwise, and the new f1 is tested for NaN
\* before i++.
SecantPass ==
    /\ stack # <<>>
    /\ Top.pc = "body"
    /\ \/ /\ Top.f1 = "within"
          /\ SecantReturn(Success(Undef))
       \/ /\ Top.f1 \in {"near", "far"}
          /\ \E f1 \in Residues : Goto([Top EXCEPT !.pc = "test", !.i = @ + 1, !.f1 = f1])
       \/ /\ Top.f1 # "within"
          /\ SecantReturn(Failure("Numerical solution diverged"))
       \/ /\ Top.f1 \in {"near", "far"}
          /\ SecantReturn(Failure("Formula evaluation resulted in NaN"))
       \/ /\ Top.f1 \in {"near", "far"}
          /\ \E f1 \in Residues \ {"nan"} :
                Goto([Top EXCEPT !.pc = "test", !.i = @ + 1, !.stalled = FALSE, !.f1 = f1])
    /\ UNCHANGED <<nodes, rootNodeIds, nextId, steps>>

\* Calls of solveNumerically, followed pass by pass.
NextSecant ==
    \/ SolveBegin
    \/ SecantLoop
    \/ SecantPass

SpecSecant == Init /\ [][NextSecant]_vars

\* What is left of a call of solveNumerically: two steps for each value of i
\* that the loop has not been through, one less once the body is entered, 0
\* when no call is running.
PassesLeft(s) ==
    IF s = <<>> THEN 0
    ELSE 2 * (MaxIterations - s[1].i) + (IF s[1].pc = "test" THEN 1 ELSE 0)

\* C26: every step of a running solveNumerically, the stalled-slope branch
\* included, brings the call closer to its return, and the body of the loop is
\* never entered more than maxIterations times.
C26_PassesBounded ==
    [][stack # <<>>
       => /\ PassesLeft(stack') < PassesLeft(stack)
          /\ stack' # <<>> => stack'[1].passes <= MaxIterations]_vars

\* The loop has been through all its passes, every one on the stalled-slope
\* branch with f1 away from the tolerance, and is about to fail.
C26_Witness ==
    /\ stack # <<>>
    /\ Top.pc = "test"
    /\ Top.i = MaxIterations
    /\ Top.passes = MaxIterations
    /\ Top.stalled
    /\ Top.f1 = "far"

\* Building a graph and calling every operation that takes an id, with ids
\* that can be absent.
NextAbsent ==
    \/ CreateFactor(FactorValues)
    \/ CreateFormula(EvalFormulas)
    \/ AddChild
    \/ RemoveChild
    \/ UpdateNode(FactorValues, EvalFormulas)
    \/ DeleteNode
    \/ Evaluate

SpecAbsent == Init /\ [][NextAbsent]_vars

\* A call of addChild, removeChild, updateNode, deleteNode or evaluateTree
\* with an id that is not in the Map.
AbsentCall ==
    /\ steps' = steps + 1
    /\ last'.op \in {"addChild", "removeChild", "updateNode", "deleteNode", "evaluateNode"}
    /\ \/ last'.a \notin DOMAIN nodes
       \/ last'.op \in {"addChild", "removeChild"} /\ last'.b \notin DOMAIN nodes

\* C27: addChild, removeChild, updateNode and deleteNode called with an id
\* that is not in the Map leave the Map and the root list as they were, and
\* evaluateTree of such an id returns 'Node not found' and changes nothing.
C27_AbsentIdsChangeNothing ==
    [][AbsentCall
       => /\ nodes' = nodes
          /\ rootNodeIds' = rootNodeIds
          /\ last'.op = "evaluateNode"
             => (~last'.res.success /\ last'.res.error = "Node not found")]_vars

\* removeChild has returned for a child that is not in the Map, and the
\* formula parent still holds a value that an evaluation would change.
C27_Witness ==
    /\ last.op = "removeChild"
    /\ last.a \in DOMAIN nodes
    /\ last.b \notin DOMAIN nodes
    /\ ~last.res.success
    /\ nodes[last.a].type = "formula"
    /\ nodes[last.a].computedValue.k = "fin"
    /\ evaluateNode(nodes, last.a, {}).ns[last.a].computedValue # nodes[last.a].computedValue

\* The values and formulas of the graphs whose cached values go stale: two
\* sums that can be nested, and a difference.
SubtreeValues == {Num(-1), Num(1)}

SubtreeFormulas ==
    { <<"a", "+", "1">>,
      <<"a", "+", "b">>,
      <<"1", "-", "a">> }

\* Node id or a formula node below it holds a computedValue that is not the
\* value of its formula over the values of the factors.
Stale(ns, id) ==
    \E m \in {id} \cup Descendants(ns, id) :
        ns[m].type = "formula" /\ ns[m].computedValue # Reference(ns, m, {})

\* evaluateTree(nodeId) on a node of the Map; what tells whether a cached
\* value at or below the node was stale when the call was made.
EvaluateSubtree ==
    /\ Call
    /\ \E nodeId \in DOMAIN nodes :
          \E r \in {evaluateNode(nodes, nodeId, {})} :
             /\ nodes' = r.ns
             /\ last' = Last("evaluateNode", nodeId, NoId,
                             IF Stale(nodes, nodeId) THEN "stale" ELSE "fresh", r.res)
    /\ Small(nodes')
    /\ UNCHANGED <<rootNodeIds, nextId, stack>>

\* createNewNode() of the builder: the node of the form is created, a factor
\* or a formula node over the children selected; with a parent selected it is
\* added to the parent and every root is evaluated, else it is made a root.
\* NoId stands for no parent selected.
CreateNewNode(values, formulas) ==
    /\ Call
    /\ nextId <= MaxNodes
    /\ \E selectedParentId \in DOMAIN nodes \cup {NoId} :
          /\ \E created \in {createFactorNode(nodes, nextId, Names[nextId], value) :
                                 value \in values}
                             \cup {createFormulaNode(nodes, nextId, Names[nextId], formula,
                                                     selectedChildIds) :
                                      formula \in formulas,
                                      selectedChildIds \in ChildLists(DOMAIN nodes)} :
                IF selectedParentId # NoId
                THEN /\ nodes' = evaluateAllRoots(addChild(created, selectedParentId, nextId),
                                                  rootNodeIds)
                     /\ rootNodeIds' = rootNodeIds
                ELSE /\ nodes' = created
                     /\ rootNodeIds' = addRootNode(rootNodeIds, nextId)
          /\ last' = Last("createNewNode", nextId, selectedParentId, "", Success(Undef))
    /\ Small(nodes')
    /\ nextId' = nextId + 1
    /\ UNCHANGED stack

\* Building a graph by the builder's form, changing the values of factors
\* and evaluating.
NextSubtree ==
    \/ CreateNewNode(SubtreeValues, SubtreeFormulas)
    \/ UpdateValue(SubtreeValues)
    \/ EvaluateSubtree

SpecSubtree == Init /\ [][NextSubtree]_vars

\* The identifiers of the formula of node id are exactly the names of its
\* children, which all exist.
NamesExactly(ns, id) ==
    /\ \A c \in Elems(ns[id].childrenIds) : c \in DOMAIN ns
    /\ {ns[id].formula[i] : i \in {j \in 1..Len(ns[id].formula) :
                                       SrcTok(ns[id].formula[j]).k = "id"}}
       = ChildNames(ns, id)

\* evaluateTree is called on a node of an acyclic graph in which every
\* formula names exactly its children and evaluates without error.
SubtreeEvaluated ==
    /\ steps' = steps + 1
    /\ last'.op = "evaluateNode"
    /\ last'.a \in DOMAIN nodes
    /\ AllValid(nodes)
    /\ EvaluatesCleanly(nodes)
    /\ \A id \in DOMAIN nodes : nodes[id].type = "formula" => NamesExactly(nodes, id)

\* The computedValue of formula node id is its formula applied to the
\* computedValue of its children.
Consistent(ns, id, result) == result.success /\ ns[id].computedValue = result.value

\* C28: after evaluateTree(n) on an acyclic graph in which every formula
\* names exactly its children and evaluates without error, n and every
\* formula node reachable from n hold their formula applied to their
\* children's computedValue, whatever was cached before.
C28_SubtreeConsistent ==
    [][SubtreeEvaluated
       => \A m \in {last'.a} \cup Descendants(nodes, last'.a) :
             nodes[m].type = "formula"
             => Consistent(nodes', m,
                           evaluateFormula(nodes'[m].formula,
                                           ContextOf(nodes', nodes'[m].childrenIds,
                                                     EmptyCtx)))]_vars

\* The integers bound to the operands of a binary expression, negative ones
\* included, and the binary expressions over the names of two factors.
BinaryValues == {Num(n) : n \in -2..2}

BinaryFormulas ==
    { <<"a", "+", "b">>,
      <<"a", "-", "b">>,
      <<"a", "*", "b">> }

\* Building two factors and a binary formula over them, and evaluating.
NextBinary ==
    \/ CreateFactor(BinaryValues)
    \/ CreateFormula(BinaryFormulas)
    \/ Evaluate

SpecBinary == Init /\ [][NextBinary]_vars

\* x op y by arithmetic on the numbers.
BinaryValue(x, op, y) ==
    IF op = "+" THEN Add(x, y) ELSE IF op = "-" THEN Sub(x, y) ELSE Mul(x, y)

\* C29: when evaluateTree has returned for a formula node 'a op b' with op
\* among + - * whose children are the factors a and b, the result is the
\* success of a.value op b.value, for negative values too.
C29_NegativeOperands ==
    (/\ last.op = "evaluateNode"
     /\ last.a \in DOMAIN nodes
     /\ nodes[last.a].type = "formula"
     /\ nodes[last.a].formula \in BinaryFormulas
     /\ \E x, y \in DOMAIN nodes :
           /\ nodes[last.a].childrenIds = <<x, y>>
           /\ nodes[x].type = "factor" /\ nodes[x].name = "a"
           /\ nodes[y].type = "factor" /\ nodes[y].name = "b")
    => \E x, y \in DOMAIN nodes :
           /\ nodes[last.a].childrenIds = <<x, y>>
           /\ last.res = Success(BinaryValue(nodes[x].value, nodes[last.a].formula[2],
                                             nodes[y].value))

\* Every call of evaluateNode that the loop over childIds makes on the
\* registry ns, and every call made below those, returns a success.
RECURSIVE ChildrenSucceed(_, _, _)
ChildrenSucceed(ns, childIds, visitedNodes) ==
    IF childIds = <<>> THEN TRUE
    ELSE IF Head(childIds) \notin DOMAIN ns
         THEN ChildrenSucceed(ns, Tail(childIds), visitedNodes)
    ELSE /\ evaluateNode(ns, Head(childIds), visitedNodes).res.success
         /\ ns[Head(childIds)].type = "formula"
            => ChildrenSucceed(ns, ns[Head(childIds)].childrenIds,
                               visitedNodes \cup {Head(childIds)})
         /\ ChildrenSucceed(evaluateNode(ns, Head(childIds), visitedNodes).ns,
                            Tail(childIds), visitedNodes)

\* C30: when evaluateTree(n) returns a success for a formula node n, every
\* evaluation of a child made during the call has returned a success.
C30_SuccessMeansChildrenSucceeded ==
    [][(/\ steps' = steps + 1
        /\ last'.op = "evaluateNode"
        /\ last'.a \in DOMAIN nodes
        /\ nodes[last'.a].type = "formula"
        /\ last'.res.success)
       => ChildrenSucceed(nodes, nodes[last'.a].childrenIds, {last'.a})]_vars

\* ------------------------------------------------------- claims C31 to C32

\* The Partial<FormulaNode> {id: id}.
IdUpdate(id) ==
    [has |-> {"id"}, value |-> Undef, formula |-> <<>>, childrenIds |-> <<>>, id |-> id]

\* updateNode(nodeId, {id: id}) with any id, as saveEdit of the tree component
\* passes the edited copy of the node, id included.
UpdateId ==
    /\ Call
    /\ \E nodeId \in DOMAIN nodes \cup {NoId}, id \in Ids :
          /\ nodes' = updateNode(nodes, rootNodeIds, nodeId, IdUpdate(id))
          /\ last' = Last("updateNode", nodeId, id, "id", Success(Undef))
    /\ Small(nodes')
    /\ UNCHANGED <<rootNodeIds, nextId, stack>>

\* Creating, updating (values, formulas, child lists and ids) and deleting.
NextIds ==
    \/ CreateFactor(EvalValues)
    \/ CreateFormula(EvalFormulas)
    \/ UpdateNode(EvalValues, EvalFormulas)
    \/ UpdateId
    \/ DeleteNode

SpecIds == Init /\ [][NextIds]_vars

\* C31: every node of the Map is stored under its own id.
C31_StoredUnderOwnId ==
    \A k \in DOMAIN nodes : nodes[k].id = k

\* Creating nodes, marking and unmarking roots with any id, and deleting.
NextRootSet ==
    \/ CreateFactor(EvalValues)
    \/ CreateFormula(EvalFormulas)
    \/ AddRootNode
    \/ RemoveRootNode
    \/ DeleteNode

SpecRootSet == Init /\ [][NextRootSet]_vars

\* C32: the root list holds no id twice, and every id in it is a key of the
\* Map.
C32_RootsAreNodes ==
    /\ Distinct(rootNodeIds)
    /\ \A i \in 1..Len(rootNodeIds) : rootNodeIds[i] \in DOMAIN nodes

====
